---- MODULE Spec2Model ----
(***************************************************************************)
(* Model of the Grocy enrichment worker (fetch handler): the bearer gate   *)
(* and the dispatch, the normalizer and scorer, fuzzy product resolution,  *)
(* the cache-aside helper, the handlers that write to the backend          *)
(* (shopping-list add, product create, single and bulk stock add), the     *)
(* views (shopping list, stock, product search) and the pass-through.      *)
(*                                                                         *)
(* Strings are sequences of one-character strings.  A missing / null /     *)
(* empty JavaScript string is the empty sequence: every place the code     *)
(* reads one tests it for truthiness or passes it through String(x || ""). *)
(***************************************************************************)
EXTENDS Integers, Sequences, FiniteSets, TLC

VARIABLES
    route,      \* which handler (or pure function) this run exercises
    pc,         \* position of the handler: the await it is suspended at
    body,       \* the parsed request body (the handler's input)
    backend,    \* the backend's collections
    cache,      \* caches.default: cache key -> stored entry
    calls,      \* every backend call issued so far, in order, with its outcome
    local,      \* the handler's local variables
    response,   \* the response returned to the caller (Null until returned)
    faultsLeft, \* how many more backend calls may fail in this run
    now,        \* the clock of the cache, in seconds
    other,      \* a concurrent request: a product-list lookup or a second creation
    first       \* the first serving of a request that is served twice (Null if not)

vars == <<route, pc, body, backend, cache, calls, local, response, faultsLeft,
          now, other, first>>

(***************************************************************************)
(* Bounds of the model.                                                    *)
(***************************************************************************)
MaxStrLen == 3

MaxProducts == 6

MaxCatalog == 2

MaxLines == 3

MaxFaults == 3

MaxBulkLen == 27

MaxStockLen == 27

MaxListLen == 52

MaxMatching == 12

(***************************************************************************)
(* Values.                                                                 *)
(***************************************************************************)
Null == [null |-> TRUE]

Min(a, b) == IF a < b THEN a ELSE b

LowerLetters == {"a", "b", "f", "g", "k", "p", "x"}

Digits == {"1"}

Whitespace == {" "}

\* the characters strings are enumerated over: lower case, upper case,
\* digit, whitespace, punctuation
Alphabet == {"a", "b", "A", "1", " ", "!"}

RECURSIVE StringsUpTo(_)
StringsUpTo(n) ==
    IF n = 0 THEN {<<>>}
    ELSE LET shorter == StringsUpTo(n - 1)
         IN  shorter \cup {Append(s, c) : s \in {t \in shorter : Len(t) = n - 1}, c \in Alphabet}

(***************************************************************************)
(* String primitives of the JavaScript runtime used by normalize and       *)
(* scoreProduct.                                                           *)
(***************************************************************************)
toLowerChar(c) ==
    CASE c = "A" -> "a"
      [] c = "B" -> "b"
      [] c = "F" -> "f"
      [] c = "P" -> "p"
      [] OTHER   -> c

toLowerCase(s) == [i \in 1..Len(s) |-> toLowerChar(s[i])]

RECURSIVE trimStart(_)
trimStart(s) ==
    IF s # <<>> /\ Head(s) \in Whitespace THEN trimStart(Tail(s)) ELSE s

RECURSIVE trimEnd(_)
trimEnd(s) ==
    IF s # <<>> /\ s[Len(s)] \in Whitespace
    THEN trimEnd(SubSeq(s, 1, Len(s) - 1))
    ELSE s

trim(s) == trimEnd(trimStart(s))

\* .replace(/[^a-z0-9\s]/g, ""): drop every character outside the class
stripOthers(s) ==
    LET keep(c) == c \in LowerLetters \cup Digits \cup Whitespace
    IN  SelectSeq(s, keep)

startsWith(name, query) ==
    /\ Len(query) <= Len(name)
    /\ SubSeq(name, 1, Len(query)) = query

includes(name, query) ==
    \E i \in 1..(Len(name) - Len(query) + 1) :
        SubSeq(name, i, i + Len(query) - 1) = query

(***************************************************************************)
(* normalize and scoreProduct.                                             *)
(***************************************************************************)
normalize(str) == stripOthers(trim(toLowerCase(str)))

scoreProduct(name, query) ==
    IF name = query THEN 100
    ELSE IF startsWith(name, query) THEN 60
    ELSE IF includes(name, query) THEN 30
    ELSE 0

(***************************************************************************)
(* resolveProductFuzzy.  products is the parsed product collection: a      *)
(* sequence of records [id, name].  The result has the two properties the  *)
(* callers read, product and error; the one the code does not set is Null  *)
(* (undefined).                                                            *)
(***************************************************************************)
TopMatches == 5

\* .map(p => ({id, name, score: p.name ? scoreProduct(normalize(p.name), query) : 0}))
scored(products, query) ==
    [i \in 1..Len(products) |->
        [id    |-> products[i].id,
         name  |-> products[i].name,
         score |-> IF products[i].name # <<>>
                   THEN scoreProduct(normalize(products[i].name), query)
                   ELSE 0]]

\* Array.prototype.sort((a, b) => b.score - a.score): a stable sort, modelled
\* as the insertion of each element behind every element that does not
\* compare after it.
\* mutant: an element is placed before the elements it ties with
RECURSIVE insertByScore_TiesFirst(_, _)
insertByScore_TiesFirst(m, sorted) ==
    IF sorted = <<>> THEN <<m>>
    ELSE IF Head(sorted).score > m.score
         THEN <<Head(sorted)>> \o insertByScore_TiesFirst(m, Tail(sorted))
         ELSE <<m>> \o sorted

RECURSIVE insertByScore(_, _)
insertByScore(m, sorted) ==
    IF sorted = <<>> THEN <<m>>
    ELSE IF Head(sorted).score >= m.score
         THEN <<Head(sorted)>> \o insertByScore(m, Tail(sorted))
         ELSE <<m>> \o sorted

RECURSIVE sortByScore(_)
sortByScore(ms) ==
    IF ms = <<>> THEN <<>>
    ELSE insertByScore(ms[Len(ms)], sortByScore(SubSeq(ms, 1, Len(ms) - 1)))

\* Array.prototype.slice(0, n): a negative n counts from the end
slice(seq, n) ==
    SubSeq(seq, 1, IF n < 0
                   THEN (IF Len(seq) + n > 0 THEN Len(seq) + n ELSE 0)
                   ELSE Min(n, Len(seq)))

\* .filter(p => p.score > 0).sort(...).slice(0, limit)
rankedMatches(products, query, limit) ==
    LET positive(m) == m.score > 0
    IN  slice(sortByScore(SelectSeq(scored(products, query), positive)), limit)

\* mutant: several matches are ambiguous even when the best one is exact
resolveProductFuzzy_NoExactException(products, productName) ==
    LET query   == normalize(productName)
        matches == rankedMatches(products, query, TopMatches)
    IN  IF Len(matches) = 0
        THEN [product |-> Null,
              error   |-> [error |-> "product_not_found", product |-> productName]]
        ELSE IF Len(matches) > 1
        THEN [product |-> Null,
              error   |-> [error    |-> "multiple_products",
                           products |-> [i \in 1..Len(matches) |->
                                            [id |-> matches[i].id, name |-> matches[i].name]]]]
        ELSE [product |-> matches[1], error |-> Null]

\* mutant: among several matches the best one is picked
resolveProductFuzzy_BestGuess(products, productName) ==
    LET query   == normalize(productName)
        matches == rankedMatches(products, query, TopMatches)
    IN  IF Len(matches) = 0
        THEN [product |-> Null,
              error   |-> [error |-> "product_not_found", product |-> productName]]
        ELSE [product |-> matches[1], error |-> Null]

\* mutant: a best match below 100 is ambiguous even when it is the only one
resolveProductFuzzy_SingleAmbiguous(products, productName) ==
    LET query   == normalize(productName)
        matches == rankedMatches(products, query, TopMatches)
    IN  IF Len(matches) = 0
        THEN [product |-> Null,
              error   |-> [error |-> "product_not_found", product |-> productName]]
        ELSE IF matches[1].score < 100
        THEN [product |-> Null,
              error   |-> [error    |-> "multiple_products",
                           products |-> [i \in 1..Len(matches) |->
                                            [id |-> matches[i].id, name |-> matches[i].name]]]]
        ELSE [product |-> matches[1], error |-> Null]

resolveProductFuzzy(products, productName) ==
    LET query   == normalize(productName)
        matches == rankedMatches(products, query, TopMatches)
    IN  IF Len(matches) = 0
        THEN [product |-> Null,
              error   |-> [error |-> "product_not_found", product |-> productName]]
        ELSE IF Len(matches) > 1 /\ matches[1].score < 100
        THEN [product |-> Null,
              error   |-> [error    |-> "multiple_products",
                           products |-> [i \in 1..Len(matches) |->
                                            [id |-> matches[i].id, name |-> matches[i].name]]]]
        ELSE [product |-> matches[1], error |-> Null]

(***************************************************************************)
(* JSON values the handlers test the type of.                              *)
(***************************************************************************)
Number(n) == [type |-> "number", value |-> n]

Undefined == [type |-> "undefined"]

typeof(v) == v.type

(***************************************************************************)
(* Responses.  json(obj, status) and jsonError carry a JSON object; the    *)
(* gateway failures are plain-text bodies; an exception that no handler    *)
(* code catches rejects the promise returned by fetch(req, env).           *)
(***************************************************************************)
json(obj, status) == [type |-> "json", status |-> status, body |-> obj]

jsonError(status, obj) == json(obj, status)

text(msg, status) == [type |-> "text", status |-> status, body |-> [text |-> msg]]

Uncaught == [type |-> "exception", status |-> 500, body |-> Null]

(***************************************************************************)
(* Calls to the backend.  A call returns a success status ("ok"), a        *)
(* non-success status ("notok"), or is rejected ("throw"); a call whose    *)
(* promise the handler does not await is "detached".  line is the position *)
(* of the bulk line the call is made for (0 outside the bulk loop).        *)
(***************************************************************************)
Outcomes == IF faultsLeft > 0 THEN {"ok", "notok", "throw"} ELSE {"ok"}

Call(kind, line, outcome) == [kind |-> kind, line |-> line, outcome |-> outcome]

Spend(cs) ==
    faultsLeft - Cardinality({i \in 1..Len(cs) : cs[i].outcome \in {"notok", "throw"}})

(***************************************************************************)
(* The cache-aside helper.  fetch is the outcome the fetcher has if it is  *)
(* invoked: [kind, outcome, payload].  The result carries the parsed data  *)
(* (Null for the code's null), the cache after the call, the backend calls *)
(* made and whether the helper threw.                                      *)
(***************************************************************************)
CACHE_VERSION == "v1.1"

\* the lifetime of the cached collections, in seconds
CACHE_DURATION == 21600

cacheKeyUrl(name) == <<"https://cache.local", CACHE_VERSION, "grocy", name>>

CacheNames == {"products", "shopping_lists", "locations", "quantity-units"}

CacheKeys == {cacheKeyUrl(n) : n \in CacheNames}

Json(payload) == [json |-> payload]

\* cache.match(cacheKey): the entry stored under the key, unless none is
\* stored or the stored one has reached the age its Cache-Control allows
cacheMatch(c, keyUrl) ==
    IF c[keyUrl] # Null /\ now - c[keyUrl].storedAt < c[keyUrl].maxAge
    THEN c[keyUrl]
    ELSE Null

\* mutant: the entry is stored without a lifetime
stored_NoMaxAge(text_, ttlSeconds) == [text |-> text_, maxAge |-> 1000000, storedAt |-> now]

\* new Response(text, {headers: {"Cache-Control": `max-age=${ttlSeconds}`}}),
\* as cache.put stores it now
stored(text_, ttlSeconds) == [text |-> text_, maxAge |-> ttlSeconds, storedAt |-> now]

\* mutant: a non-success response is stored like a successful one
cacheGetJson_NegativeCaching(c, keyUrl, fetch, ttlSeconds) ==
    IF cacheMatch(c, keyUrl) # Null
    THEN [data |-> Json(cacheMatch(c, keyUrl).text), cache |-> c, calls |-> <<>>, threw |-> FALSE]
    ELSE LET call == Call(fetch.kind, 0, fetch.outcome)
         IN  CASE fetch.outcome = "throw" ->
                    [data |-> Null, cache |-> c, calls |-> <<call>>, threw |-> TRUE]
               [] fetch.outcome = "notok" ->
                    [data  |-> Null,
                     cache |-> [c EXCEPT ![keyUrl] = stored(<<>>, ttlSeconds)],
                     calls |-> <<call>>,
                     threw |-> FALSE]
               [] OTHER ->
                    [data  |-> Json(fetch.payload),
                     cache |-> [c EXCEPT ![keyUrl] = stored(fetch.payload, ttlSeconds)],
                     calls |-> <<call>>,
                     threw |-> FALSE]

\* mutant: the fetcher is invoked whether or not the key has a live entry
cacheGetJson_AlwaysFetch(c, keyUrl, fetch, ttlSeconds) ==
    LET call == Call(fetch.kind, 0, fetch.outcome)
    IN  CASE fetch.outcome = "throw" ->
               [data |-> Null, cache |-> c, calls |-> <<call>>, threw |-> TRUE]
          [] fetch.outcome = "notok" ->
               [data |-> Null, cache |-> c, calls |-> <<call>>, threw |-> FALSE]
          [] OTHER ->
               [data  |-> Json(fetch.payload),
                cache |-> [c EXCEPT ![keyUrl] = stored(fetch.payload, ttlSeconds)],
                calls |-> <<call>>,
                threw |-> FALSE]

cacheGetJson(c, keyUrl, fetch, ttlSeconds) ==
    IF cacheMatch(c, keyUrl) # Null
    THEN [data |-> Json(cacheMatch(c, keyUrl).text), cache |-> c, calls |-> <<>>, threw |-> FALSE]
    ELSE LET call == Call(fetch.kind, 0, fetch.outcome)
         IN  CASE fetch.outcome = "throw" ->
                    [data |-> Null, cache |-> c, calls |-> <<call>>, threw |-> TRUE]
               [] fetch.outcome = "notok" ->
                    [data |-> Null, cache |-> c, calls |-> <<call>>, threw |-> FALSE]
               [] OTHER ->
                    [data  |-> Json(fetch.payload),
                     cache |-> [c EXCEPT ![keyUrl] = stored(fetch.payload, ttlSeconds)],
                     calls |-> <<call>>,
                     threw |-> FALSE]

\* if (!data) throw new Error(...)
throwIfNoData(r) == [r EXCEPT !.threw = r.threw \/ r.data = Null]

\* mutant: the product list is looked up under the key of the shopping lists
getCachedProducts_WrongKey(c, outcome) ==
    throwIfNoData(cacheGetJson(c, cacheKeyUrl("shopping_lists"),
        [kind |-> "GET /api/objects/products", outcome |-> outcome,
         payload |-> backend.products], CACHE_DURATION))

getCachedProducts(c, outcome) ==
    throwIfNoData(cacheGetJson(c, cacheKeyUrl("products"),
        [kind |-> "GET /api/objects/products", outcome |-> outcome,
         payload |-> backend.products], CACHE_DURATION))

getCachedShoppingLists(c, outcome) ==
    throwIfNoData(cacheGetJson(c, cacheKeyUrl("shopping_lists"),
        [kind |-> "GET /api/objects/shopping_lists", outcome |-> outcome,
         payload |-> backend.shopping_lists], CACHE_DURATION))

(***************************************************************************)
(* Specification of normalize as a pure function: the input is any string  *)
(* of at most MaxStrLen characters; the one step applies normalize once    *)
(* and then again to its own result.                                       *)
(***************************************************************************)
Idle == [none |-> TRUE]

NoBackend ==
    [products |-> <<>>, shopping_lists |-> <<>>, locations |-> <<>>,
     quantity_units |-> <<>>, product_groups |-> <<>>]

NoCache == [k \in {} |-> Null]

\* one request, served once, with no other request in flight, at time 0
Alone == now = 0 /\ other = Null /\ first = Null

InitNorm ==
    /\ route = "normalize"
    /\ pc = "start"
    /\ \E s \in StringsUpTo(MaxStrLen) : body = [str |-> s]
    /\ backend = NoBackend
    /\ cache = NoCache
    /\ calls = <<>>
    /\ local = Idle
    /\ response = Null
    /\ faultsLeft = 0
    /\ Alone

ApplyNormalize ==
    /\ route = "normalize"
    /\ pc = "start"
    /\ pc' = "done"
    /\ local' = [once |-> normalize(body.str),
                 twice |-> normalize(normalize(body.str))]
    /\ UNCHANGED <<now, other, first, route, body, backend, cache, calls, response, faultsLeft>>

NextNorm == ApplyNormalize

SpecNorm == InitNorm /\ [][NextNorm]_vars

\* C10: normalize is idempotent: normalizing a normalized string changes
\* nothing, for every input string.
C10_NormalizeIdempotent ==
    (route = "normalize" /\ pc = "done") => local.twice = local.once

(***************************************************************************)
(* Specification of resolveProductFuzzy as a pure function: the candidate  *)
(* set is any sequence of at most MaxProducts products named from NamePool *)
(* (the empty name is a product without a name), their ids being their     *)
(* positions in the backend's order; the query is any name of QueryPool.   *)
(***************************************************************************)
NamePool == {<<>>, <<"a">>, <<"A", "b">>, <<"b", "a", "!">>}

QueryPool == {<<"a">>, <<"B">>, <<"!">>, <<"x">>}

RECURSIVE SeqsUpTo(_, _)
SeqsUpTo(S, n) ==
    IF n = 0 THEN {<<>>}
    ELSE LET shorter == SeqsUpTo(S, n - 1)
         IN  shorter \cup {Append(s, e) : s \in {t \in shorter : Len(t) = n - 1}, e \in S}

Catalog(names) == [i \in 1..Len(names) |-> [id |-> i, name |-> names[i]]]

InitResolve ==
    /\ route = "resolveProductFuzzy"
    /\ pc = "start"
    /\ \E names \in SeqsUpTo(NamePool, MaxProducts), q \in QueryPool :
          body = [products |-> Catalog(names), productName |-> q]
    /\ backend = NoBackend
    /\ cache = NoCache
    /\ calls = <<>>
    /\ local = Idle
    /\ response = Null
    /\ faultsLeft = 0
    /\ Alone

ApplyResolve ==
    /\ route = "resolveProductFuzzy"
    /\ pc = "start"
    /\ pc' = "done"
    /\ local' = [resolved |-> resolveProductFuzzy(body.products, body.productName)]
    /\ UNCHANGED <<now, other, first, route, body, backend, cache, calls, response, faultsLeft>>

NextResolve == ApplyResolve

SpecResolve == InitResolve /\ [][NextResolve]_vars

(***************************************************************************)
(* The decision table of the resolution, stated on the candidates' scores. *)
(***************************************************************************)
ResolveDone == route = "resolveProductFuzzy" /\ pc = "done"

ScoreOf(p, q) ==
    IF p.name # <<>> THEN scoreProduct(normalize(p.name), normalize(q)) ELSE 0

\* positions of the candidates with a non-zero score
NonZero(products, q) == {i \in 1..Len(products) : ScoreOf(products[i], q) > 0}

HasExact(products, q) == \E i \in 1..Len(products) : ScoreOf(products[i], q) = 100

\* candidate i ranks before candidate j: higher score, or equal score and
\* earlier in the backend's order
RanksBefore(products, q, i, j) ==
    \/ ScoreOf(products[i], q) > ScoreOf(products[j], q)
    \/ ScoreOf(products[i], q) = ScoreOf(products[j], q) /\ i < j

IsResolved(r) == r.product # Null /\ r.error = Null

IsNotFound(r) == r.product = Null /\ r.error # Null /\ r.error.error = "product_not_found"

IsAmbiguous(r) == r.product = Null /\ r.error # Null /\ r.error.error = "multiple_products"

\* C7 as stated: a candidate whose normalized name equals the normalized
\* query makes the resolution Resolved with a candidate of score 100.
C7_ExactNameResolves ==
    (ResolveDone /\ \E i \in 1..Len(body.products) :
                        normalize(body.products[i].name) = normalize(body.productName))
    => (IsResolved(local.resolved) /\ local.resolved.product.score = 100)

\* C7 amended: a candidate that has a (non-empty) name whose normalized form
\* equals the normalized query makes the resolution Resolved with a
\* candidate of score 100, whatever the other candidates score.
C7_ExactNamedResolves ==
    (ResolveDone /\ \E i \in 1..Len(body.products) :
                        /\ body.products[i].name # <<>>
                        /\ normalize(body.products[i].name) = normalize(body.productName))
    => (IsResolved(local.resolved) /\ local.resolved.product.score = 100)

\* an exact match together with at least two other non-zero candidates
C7_Witness ==
    /\ ResolveDone
    /\ HasExact(body.products, body.productName)
    /\ Cardinality(NonZero(body.products, body.productName)) >= 3
    /\ IsResolved(local.resolved)

\* C8: with two or more non-zero candidates and none scoring 100 the result
\* is Ambiguous and lists exactly the kept candidates: at most 5, the best
\* ranked ones, by descending score and backend order among equal scores.
C8_AmbiguousListsKept ==
    LET ps == body.products
        q  == body.productName
        nz == NonZero(ps, q)
        l  == local.resolved.error.products
    IN  (ResolveDone /\ Cardinality(nz) >= 2 /\ ~HasExact(ps, q))
        => /\ IsAmbiguous(local.resolved)
           /\ Len(l) = Min(TopMatches, Cardinality(nz))
           /\ \A k \in 1..Len(l) : l[k].id \in nz /\ l[k].name = ps[l[k].id].name
           /\ \A k \in 1..(Len(l) - 1) : RanksBefore(ps, q, l[k].id, l[k + 1].id)
           /\ \A i \in nz : (\A k \in 1..Len(l) : l[k].id # i)
                                => \A k \in 1..Len(l) : RanksBefore(ps, q, l[k].id, i)

\* more than 5 non-zero candidates of two different scores, none exact
C8_Witness ==
    LET ps == body.products
        q  == body.productName
    IN  /\ ResolveDone
        /\ Cardinality(NonZero(ps, q)) > TopMatches
        /\ ~HasExact(ps, q)
        /\ \E i, j \in NonZero(ps, q) : i < j /\ ScoreOf(ps[i], q) < ScoreOf(ps[j], q)
        /\ IsAmbiguous(local.resolved)
        /\ Len(local.resolved.error.products) = TopMatches

\* C9: the result is exactly one of Resolved, NotFound, Ambiguous; it is
\* NotFound exactly when no candidate has a non-zero score, and Resolved
\* (with that candidate) when exactly one candidate has a non-zero score.
C9_ExactlyOneOutcome ==
    LET ps == body.products
        q  == body.productName
        nz == NonZero(ps, q)
        r  == local.resolved
    IN  ResolveDone
        => /\ (r.product = Null) # (r.error = Null)
           /\ Cardinality({o \in {"r", "n", "a"} :
                  \/ o = "r" /\ IsResolved(r)
                  \/ o = "n" /\ IsNotFound(r)
                  \/ o = "a" /\ IsAmbiguous(r)}) = 1
           /\ IsNotFound(r) <=> nz = {}
           /\ \A i \in nz : nz = {i} => IsResolved(r) /\ r.product.id = i

\* a single non-zero candidate scoring less than 100 is resolved
C9_Witness ==
    LET ps == body.products
        q  == body.productName
    IN  /\ ResolveDone
        /\ Cardinality(NonZero(ps, q)) = 1
        /\ ~HasExact(ps, q)
        /\ Len(ps) >= 2
        /\ IsResolved(local.resolved)
        /\ local.resolved.product.score < 100

(***************************************************************************)
(* The handlers.  One action per await of the handler: the action is the   *)
(* code that runs from that await to the next one (or to the return).      *)
(***************************************************************************)
Return(resp) == pc' = "done" /\ response' = resp

\* the product detail record of GET /api/stock/products/{id}
Details(productId) == [product_id |-> productId, last_shopping_location_id |-> Null]

(***************************************************************************)
(* POST /api/enriched/shopping_list/add                                    *)
(***************************************************************************)
\* mutant: the amount is not validated
ListAddValidate_AnyAmount ==
    /\ route = "shopping_list/add"
    /\ pc = "start"
    /\ IF body = Null
       THEN Return(jsonError(400, [error |-> "invalid_json"]))
       ELSE IF body.product = <<>>
       THEN Return(jsonError(400, [error |-> "invalid_request"]))
       ELSE pc' = "lists" /\ response' = response
    /\ UNCHANGED <<now, other, first, route, body, backend, cache, calls, local, faultsLeft>>

ListAddValidate ==
    /\ route = "shopping_list/add"
    /\ pc = "start"
    /\ IF body = Null
       THEN Return(jsonError(400, [error |-> "invalid_json"]))
       ELSE IF body.product = <<>> \/ typeof(body.amount) # "number"
       THEN Return(jsonError(400, [error |-> "invalid_request"]))
       ELSE pc' = "lists" /\ response' = response
    /\ UNCHANGED <<now, other, first, route, body, backend, cache, calls, local, faultsLeft>>

\* lists.find(l => l.id === shopping_list_id): the first list with that id
find(seq, Test(_)) ==
    IF \E i \in 1..Len(seq) : Test(seq[i])
    THEN seq[CHOOSE i \in 1..Len(seq) : Test(seq[i]) /\ \A j \in 1..(i - 1) : ~Test(seq[j])]
    ELSE Null

\* mutant: without a list id the first of several lists is taken
ListAddLists_FirstOfMany ==
    /\ route = "shopping_list/add"
    /\ pc = "lists"
    /\ \E o \in Outcomes :
        LET r     == getCachedShoppingLists(cache, o)
            lists == r.data.json
            hasId(l) == l.id = body.shopping_list_id
        IN  /\ cache' = r.cache
            /\ calls' = calls \o r.calls
            /\ faultsLeft' = Spend(r.calls)
            /\ IF r.threw
               THEN Return(text("Failed to fetch shopping lists", 502)) /\ local' = local
               ELSE IF body.shopping_list_id # 0
               THEN IF find(lists, hasId) = Null
                    THEN /\ Return(jsonError(400, [error |-> "invalid_shopping_list_id"]))
                         /\ local' = local
                    ELSE /\ pc' = "products" /\ response' = response
                         /\ local' = [selectedList |-> find(lists, hasId),
                                      products |-> <<>>, resolved |-> Null]
               ELSE IF Len(lists) >= 1
               THEN /\ pc' = "products" /\ response' = response
                    /\ local' = [selectedList |-> lists[1],
                                 products |-> <<>>, resolved |-> Null]
               ELSE IF Len(lists) > 1
               THEN /\ Return(json([error |-> "multiple_lists", lists |-> lists], 400))
                    /\ local' = local
               ELSE /\ Return(jsonError(400, [error |-> "no_shopping_list_found"]))
                    /\ local' = local
    /\ UNCHANGED <<now, other, first, route, body, backend>>

ListAddLists ==
    /\ route = "shopping_list/add"
    /\ pc = "lists"
    /\ \E o \in Outcomes :
        LET r     == getCachedShoppingLists(cache, o)
            lists == r.data.json
            hasId(l) == l.id = body.shopping_list_id
        IN  /\ cache' = r.cache
            /\ calls' = calls \o r.calls
            /\ faultsLeft' = Spend(r.calls)
            /\ IF r.threw
               THEN Return(text("Failed to fetch shopping lists", 502)) /\ local' = local
               ELSE IF body.shopping_list_id # 0
               THEN IF find(lists, hasId) = Null
                    THEN /\ Return(jsonError(400, [error |-> "invalid_shopping_list_id"]))
                         /\ local' = local
                    ELSE /\ pc' = "products" /\ response' = response
                         /\ local' = [selectedList |-> find(lists, hasId),
                                      products |-> <<>>, resolved |-> Null]
               ELSE IF Len(lists) = 1
               THEN /\ pc' = "products" /\ response' = response
                    /\ local' = [selectedList |-> lists[1],
                                 products |-> <<>>, resolved |-> Null]
               ELSE IF Len(lists) > 1
               THEN /\ Return(json([error |-> "multiple_lists", lists |-> lists], 400))
                    /\ local' = local
               ELSE /\ Return(jsonError(400, [error |-> "no_shopping_list_found"]))
                    /\ local' = local
    /\ UNCHANGED <<now, other, first, route, body, backend>>

ListAddProducts ==
    /\ route = "shopping_list/add"
    /\ pc = "products"
    /\ \E o \in Outcomes :
        LET r        == getCachedProducts(cache, o)
            resolved == resolveProductFuzzy(r.data.json, body.product)
        IN  /\ cache' = r.cache
            /\ calls' = calls \o r.calls
            /\ faultsLeft' = Spend(r.calls)
            /\ IF r.threw
               THEN Return(text("Failed to fetch products", 502)) /\ local' = local
               ELSE /\ local' = [local EXCEPT !.products = r.data.json,
                                                 !.resolved = resolved]
                    /\ IF resolved.error # Null
                       THEN Return(json(resolved.error, 400))
                       ELSE pc' = "add" /\ response' = response
    /\ UNCHANGED <<now, other, first, route, body, backend>>

\* mutant: a write answered with a failure status is tried once more
ListAddWrite_Retry ==
    /\ route = "shopping_list/add"
    /\ pc = "add"
    /\ \E o \in Outcomes :
        LET call == Call("POST /api/stock/shoppinglist/add-product", 0, o)
        IN  /\ calls' = IF o = "notok" THEN calls \o <<call, call>> ELSE Append(calls, call)
            /\ faultsLeft' = Spend(<<call>>)
            /\ CASE o = "throw" -> Return(Uncaught)
                 [] o = "notok" -> Return(text("Failed to add item", 502))
                 [] OTHER ->
                      Return(json([status |-> "added",
                                   list   |-> local.selectedList,
                                   item   |-> [product_id   |-> local.resolved.product.id,
                                               product_name |-> local.resolved.product.name,
                                               amount       |-> body.amount]], 200))
    /\ UNCHANGED <<now, other, first, route, body, backend, cache, local>>

ListAddWrite ==
    /\ route = "shopping_list/add"
    /\ pc = "add"
    /\ \E o \in Outcomes :
        LET call == Call("POST /api/stock/shoppinglist/add-product", 0, o)
        IN  /\ calls' = Append(calls, call)
            /\ faultsLeft' = Spend(<<call>>)
            /\ CASE o = "throw" -> Return(Uncaught)
                 [] o = "notok" -> Return(text("Failed to add item", 502))
                 [] OTHER ->
                      Return(json([status |-> "added",
                                   list   |-> local.selectedList,
                                   item   |-> [product_id   |-> local.resolved.product.id,
                                               product_name |-> local.resolved.product.name,
                                               amount       |-> body.amount]], 200))
    /\ UNCHANGED <<now, other, first, route, body, backend, cache, local>>

(***************************************************************************)
(* POST /api/enriched/stock/add                                            *)
(***************************************************************************)
StockAddValidate ==
    /\ route = "stock/add"
    /\ pc = "start"
    /\ IF body = Null
       THEN Return(jsonError(400, [error |-> "invalid_json"]))
       ELSE IF body.product = <<>> \/ typeof(body.amount) # "number"
       THEN Return(jsonError(400, [error |-> "invalid_request"]))
       ELSE pc' = "products" /\ response' = response
    /\ UNCHANGED <<now, other, first, route, body, backend, cache, calls, local, faultsLeft>>

StockAddProducts ==
    /\ route = "stock/add"
    /\ pc = "products"
    /\ \E o \in Outcomes :
        LET r        == getCachedProducts(cache, o)
            resolved == resolveProductFuzzy(r.data.json, body.product)
        IN  /\ cache' = r.cache
            /\ calls' = calls \o r.calls
            /\ faultsLeft' = Spend(r.calls)
            /\ IF r.threw
               THEN Return(text("Failed to fetch products", 502)) /\ local' = local
               ELSE /\ local' = [products |-> r.data.json, resolved |-> resolved,
                                 details |-> Null]
                    /\ IF resolved.error # Null
                       THEN Return(json(resolved.error, 400))
                       ELSE pc' = "details" /\ response' = response
    /\ UNCHANGED <<now, other, first, route, body, backend>>

StockAddDetails ==
    /\ route = "stock/add"
    /\ pc = "details"
    /\ \E o \in Outcomes :
        LET call == Call("GET /api/stock/products/{id}", 0, o)
        IN  /\ calls' = Append(calls, call)
            /\ faultsLeft' = Spend(<<call>>)
            /\ CASE o = "throw" -> Return(Uncaught) /\ local' = local
                 [] o = "notok" ->
                      Return(text("Failed to fetch product details", 502)) /\ local' = local
                 [] OTHER ->
                      /\ pc' = "add" /\ response' = response
                      /\ local' = [local EXCEPT !.details = Details(local.resolved.product.id)]
    /\ UNCHANGED <<now, other, first, route, body, backend, cache>>

\* mutant: the price write is issued whether or not a price was supplied
priceWrite_Always(price, line) ==
    <<Call("POST /api/objects/product_prices", line, "detached")>>

\* if (typeof price === "number") fetch(".../product_prices", ...).catch(() => {})
priceWrite(price, line) ==
    IF typeof(price) = "number"
    THEN <<Call("POST /api/objects/product_prices", line, "detached")>>
    ELSE <<>>

interpreted_as(amount, price) ==
    [amount |-> amount, price |-> IF typeof(price) = "number" THEN price ELSE Null]

\* mutant: the price write is awaited and its failure fails the request
StockAddWrite_AwaitPrice ==
    /\ route = "stock/add"
    /\ pc = "add"
    /\ \E o \in Outcomes, po \in {"ok", "notok"} :
        LET call  == Call("POST /api/objects/products/{id}/add", 0, o)
            price == IF typeof(body.price) = "number"
                     THEN <<Call("POST /api/objects/product_prices", 0, po)>>
                     ELSE <<>>
        IN  /\ faultsLeft' = Spend(<<call>>)
            /\ CASE o = "throw" -> Return(Uncaught) /\ calls' = Append(calls, call)
                 [] o = "notok" ->
                      Return(text("Failed to add stock", 502)) /\ calls' = Append(calls, call)
                 [] OTHER ->
                      /\ calls' = Append(calls, call) \o price
                      /\ IF price # <<>> /\ po = "notok"
                         THEN Return(text("Failed to record price", 502))
                         ELSE Return(json([status  |-> "added",
                                           product |-> [id   |-> local.resolved.product.id,
                                                        name |-> local.resolved.product.name],
                                           interpreted_as |->
                                               interpreted_as(body.amount, body.price)],
                                          200))
    /\ UNCHANGED <<now, other, first, route, body, backend, cache, local>>

StockAddWrite ==
    /\ route = "stock/add"
    /\ pc = "add"
    /\ \E o \in Outcomes :
        LET call == Call("POST /api/objects/products/{id}/add", 0, o)
        IN  /\ faultsLeft' = Spend(<<call>>)
            /\ CASE o = "throw" -> Return(Uncaught) /\ calls' = Append(calls, call)
                 [] o = "notok" ->
                      Return(text("Failed to add stock", 502)) /\ calls' = Append(calls, call)
                 [] OTHER ->
                      /\ calls' = Append(calls, call) \o priceWrite(body.price, 0)
                      /\ Return(json([status  |-> "added",
                                      product |-> [id   |-> local.resolved.product.id,
                                                   name |-> local.resolved.product.name],
                                      interpreted_as |-> interpreted_as(body.amount, body.price)],
                                     200))
    /\ UNCHANGED <<now, other, first, route, body, backend, cache, local>>

(***************************************************************************)
(* POST /api/enriched/stock/add/bulk                                       *)
(***************************************************************************)
MAX_ITEMS == 25

Array(seq) == [type |-> "array", value |-> seq]

isArray(v) == v.type = "array"

\* mutant: the batch is not capped
safeItems_NoCap(items) == items

safeItems(items) == slice(items, MAX_ITEMS)

CountStatus(results, status) ==
    Cardinality({k \in 1..Len(results) : results[k].status = status})

\* mutant: every result is counted as added
summary_AllAdded(retained, results) ==
    [total  |-> Len(retained),
     added  |-> Len(results),
     errors |-> CountStatus(results, "error")]

summary(retained, results) ==
    [total  |-> Len(retained),
     added  |-> CountStatus(results, "added"),
     errors |-> CountStatus(results, "error")]

completed(retained, results) ==
    json([status  |-> "completed",
          summary |-> summary(retained, results),
          results |-> results], 200)

BulkValidate ==
    /\ route = "stock/add/bulk"
    /\ pc = "start"
    /\ IF body = Null
       THEN Return(jsonError(400, [error |-> "invalid_json"])) /\ local' = local
       ELSE IF ~isArray(body.items) \/ Len(body.items.value) = 0
       THEN Return(jsonError(400, [error |-> "invalid_request"])) /\ local' = local
       ELSE /\ pc' = "products" /\ response' = response
            /\ local' = [safeItems |-> safeItems(body.items.value), products |-> <<>>,
                         results |-> <<>>, idx |-> 1, resolved |-> Null, details |-> Null]
    /\ UNCHANGED <<now, other, first, route, body, backend, cache, calls, faultsLeft>>

BulkProducts ==
    /\ route = "stock/add/bulk"
    /\ pc = "products"
    /\ \E o \in Outcomes :
        LET r == getCachedProducts(cache, o)
        IN  /\ cache' = r.cache
            /\ calls' = calls \o r.calls
            /\ faultsLeft' = Spend(r.calls)
            /\ IF r.threw
               THEN Return(text("Failed to fetch products", 502)) /\ local' = local
               ELSE /\ pc' = "line" /\ response' = response
                    /\ local' = [local EXCEPT !.products = r.data.json]
    /\ UNCHANGED <<now, other, first, route, body, backend>>

\* results.push(result); continue -- and, behind the last retained line, the
\* loop ends and the handler returns the completed response
PushResult(result) ==
    LET results == Append(local.results, result)
    IN  IF local.idx = Len(local.safeItems)
        THEN /\ Return(completed(local.safeItems, results))
             /\ local' = [local EXCEPT !.results = results]
        ELSE /\ pc' = "line" /\ response' = response
             /\ local' = [local EXCEPT !.results = results, !.idx = local.idx + 1]

resolutionError(line, err) ==
    IF err.error = "product_not_found"
    THEN [line |-> line, status |-> "error", error |-> err.error, product |-> err.product]
    ELSE [line |-> line, status |-> "error", error |-> err.error, products |-> err.products]

\* one iteration of the loop up to its first await that completes: shape
\* check, resolution and the fetch of the product's details
BulkLine ==
    /\ route = "stock/add/bulk"
    /\ pc = "line"
    /\ LET item == local.safeItems[local.idx]
       IN  IF item = Null
           THEN \* const { line, ... } = item throws a TypeError
                /\ Return(Uncaught)
                /\ UNCHANGED <<calls, local, faultsLeft>>
           ELSE IF item.product = <<>> \/ typeof(item.amount) # "number"
           THEN /\ PushResult([line |-> item.line, status |-> "error", error |-> "invalid_line"])
                /\ UNCHANGED <<calls, faultsLeft>>
           ELSE LET resolved == resolveProductFuzzy(local.products, item.product)
                IN  IF resolved.error # Null
                    THEN /\ PushResult(resolutionError(item.line, resolved.error))
                         /\ UNCHANGED <<calls, faultsLeft>>
                    ELSE \E o \in Outcomes :
                           LET call == Call("GET /api/stock/products/{id}", local.idx, o)
                           IN  /\ calls' = Append(calls, call)
                               /\ faultsLeft' = Spend(<<call>>)
                               /\ IF o # "ok"
                                  THEN PushResult([line |-> item.line, status |-> "error",
                                                   error |-> "product_details_unavailable"])
                                  ELSE /\ pc' = "lineAdd" /\ response' = response
                                       /\ local' = [local EXCEPT
                                                      !.resolved = resolved,
                                                      !.details = Details(resolved.product.id)]
    /\ UNCHANGED <<now, other, first, route, body, backend, cache>>

\* the rest of the iteration: the stock-add write, the price write, the push
BulkLineAdd ==
    /\ route = "stock/add/bulk"
    /\ pc = "lineAdd"
    /\ LET item == local.safeItems[local.idx]
       IN  \E o \in Outcomes :
             LET call == Call("POST /api/objects/products/{id}/add", local.idx, o)
             IN  /\ faultsLeft' = Spend(<<call>>)
                 /\ CASE o = "throw" ->
                           /\ calls' = Append(calls, call)
                           /\ Return(Uncaught) /\ local' = local
                      [] o = "notok" ->
                           /\ calls' = Append(calls, call)
                           /\ PushResult([line |-> item.line, status |-> "error",
                                          error |-> "add_failed"])
                      [] OTHER ->
                           /\ calls' = Append(calls, call) \o priceWrite(item.price, local.idx)
                           /\ PushResult([line    |-> item.line,
                                          status  |-> "added",
                                          product |-> [id   |-> local.resolved.product.id,
                                                       name |-> local.resolved.product.name],
                                          interpreted_as |->
                                              interpreted_as(item.amount, item.price)])
    /\ UNCHANGED <<now, other, first, route, body, backend, cache>>

(***************************************************************************)
(* POST /api/enriched/products/create                                      *)
(***************************************************************************)
DEFAULT_LOCATION_NAME == <<"F">>

DEFAULT_UNITS == [stock |-> <<"P">>, purchase |-> <<"P">>, consume |-> <<"P">>, price |-> <<"P">>]

\* the order of Object.entries(resolvedUnits)
UnitRoles == <<"stock", "purchase", "consume", "price">>

\* a || b on strings
orDefault(a, b) == IF a # <<>> THEN a ELSE b

\* mutant: the names are compared as written
isDuplicate_Raw(products, name) ==
    \E i \in 1..Len(products) : products[i].name = name

\* products.some(p => normalize(p.name) === normalizedName)
isDuplicate(products, name) ==
    \E i \in 1..Len(products) : normalize(products[i].name) = normalize(name)

\* xs.find(x => normalize(x.name) === normalize(name))
findByName(xs, name) ==
    LET sameName(x) == normalize(x.name) = normalize(name)
    IN  find(xs, sameName)

resolvedUnits(units, quantity_units) ==
    [role \in {UnitRoles[i] : i \in 1..Len(UnitRoles)} |->
        findByName(units, orDefault(quantity_units[role], DEFAULT_UNITS[role]))]

\* mutant: the rejection names the last entry without a unit
firstMissingUnit_Last(resolved) ==
    IF \E i \in 1..Len(UnitRoles) : resolved[UnitRoles[i]] = Null
    THEN UnitRoles[CHOOSE i \in 1..Len(UnitRoles) :
                      /\ resolved[UnitRoles[i]] = Null
                      /\ \A j \in (i + 1)..Len(UnitRoles) : resolved[UnitRoles[j]] # Null]
    ELSE ""

\* for (const [key, unit] of Object.entries(resolvedUnits)) if (!unit) return ...
\* the key of the first entry without a unit, "" when every entry has one
firstMissingUnit(resolved) ==
    IF \E i \in 1..Len(UnitRoles) : resolved[UnitRoles[i]] = Null
    THEN UnitRoles[CHOOSE i \in 1..Len(UnitRoles) :
                      /\ resolved[UnitRoles[i]] = Null
                      /\ \A j \in 1..(i - 1) : resolved[UnitRoles[j]] # Null]
    ELSE ""

CreateValidate ==
    /\ route = "products/create"
    /\ pc = "start"
    /\ IF body = Null
       THEN Return(jsonError(400, [error |-> "invalid_json"])) /\ local' = local
       ELSE IF body.name = <<>>
       THEN Return(jsonError(400, [error |-> "invalid_request"])) /\ local' = local
       ELSE /\ pc' = "dedupe" /\ response' = response
            /\ local' = [products |-> <<>>, locations |-> <<>>, location |-> Null,
                         units |-> <<>>, resolvedUnits |-> Null, groups |-> <<>>,
                         product_group_id |-> 0, productId |-> 0,
                         imageAttached |-> FALSE, imageError |-> ""]
    /\ UNCHANGED <<now, other, first, route, body, backend, cache, calls, faultsLeft>>

\* mutant: a duplicate name does not stop the request
CreateDedupe_Passes ==
    /\ route = "products/create"
    /\ pc = "dedupe"
    /\ \E o \in Outcomes :
        LET r == getCachedProducts(cache, o)
        IN  /\ cache' = r.cache
            /\ calls' = calls \o r.calls
            /\ faultsLeft' = Spend(r.calls)
            /\ IF r.threw
               THEN Return(text("Failed to fetch products", 502)) /\ local' = local
               ELSE /\ local' = [local EXCEPT !.products = r.data.json]
                    /\ pc' = "location" /\ response' = response
    /\ UNCHANGED <<now, other, first, route, body, backend>>

CreateDedupe ==
    /\ route = "products/create"
    /\ pc = "dedupe"
    /\ \E o \in Outcomes :
        LET r == getCachedProducts(cache, o)
        IN  /\ cache' = r.cache
            /\ calls' = calls \o r.calls
            /\ faultsLeft' = Spend(r.calls)
            /\ IF r.threw
               THEN Return(text("Failed to fetch products", 502)) /\ local' = local
               ELSE /\ local' = [local EXCEPT !.products = r.data.json]
                    /\ IF isDuplicate(r.data.json, body.name)
                       THEN Return(jsonError(400, [error   |-> "product_exists",
                                                   product |-> body.name]))
                       ELSE pc' = "location" /\ response' = response
    /\ UNCHANGED <<now, other, first, route, body, backend>>

CreateLocation ==
    /\ route = "products/create"
    /\ pc = "location"
    /\ \E o \in Outcomes :
        LET locationName == orDefault(body.default_location, DEFAULT_LOCATION_NAME)
            r == cacheGetJson(cache, cacheKeyUrl("locations"),
                     [kind |-> "GET /api/objects/locations", outcome |-> o,
                      payload |-> backend.locations], CACHE_DURATION)
            location == findByName(r.data.json, locationName)
        IN  /\ cache' = r.cache
            /\ calls' = calls \o r.calls
            /\ faultsLeft' = Spend(r.calls)
            /\ IF r.threw
               THEN Return(Uncaught) /\ local' = local
               ELSE IF r.data = Null
               THEN Return(text("Failed to fetch locations", 502)) /\ local' = local
               ELSE /\ local' = [local EXCEPT !.locations = r.data.json,
                                              !.location = location]
                    /\ IF location = Null
                       THEN Return(jsonError(400, [error    |-> "invalid_location",
                                                   location |-> locationName]))
                       ELSE pc' = "units" /\ response' = response
    /\ UNCHANGED <<now, other, first, route, body, backend>>

CreateUnits ==
    /\ route = "products/create"
    /\ pc = "units"
    /\ \E o \in Outcomes :
        LET r == cacheGetJson(cache, cacheKeyUrl("quantity-units"),
                     [kind |-> "GET /api/objects/quantity_units", outcome |-> o,
                      payload |-> backend.quantity_units], CACHE_DURATION)
            resolved == resolvedUnits(r.data.json, body.quantity_units)
        IN  /\ cache' = r.cache
            /\ calls' = calls \o r.calls
            /\ faultsLeft' = Spend(r.calls)
            /\ IF r.threw
               THEN Return(Uncaught) /\ local' = local
               ELSE IF r.data = Null
               THEN Return(text("Failed to fetch quantity units", 502)) /\ local' = local
               ELSE /\ local' = [local EXCEPT !.units = r.data.json,
                                              !.resolvedUnits = resolved]
                    /\ IF firstMissingUnit(resolved) # ""
                       THEN Return(jsonError(400, [error |-> "invalid_quantity_unit",
                                                   unit  |-> firstMissingUnit(resolved)]))
                       ELSE /\ response' = response
                            /\ pc' = IF body.product_group # <<>> THEN "group" ELSE "create"
    /\ UNCHANGED <<now, other, first, route, body, backend>>

CreateGroup ==
    /\ route = "products/create"
    /\ pc = "group"
    /\ \E o \in Outcomes :
        LET call  == Call("GET /api/objects/product_groups", 0, o)
            match == findByName(backend.product_groups, body.product_group)
        IN  /\ calls' = Append(calls, call)
            /\ faultsLeft' = Spend(<<call>>)
            /\ CASE o = "throw" -> Return(Uncaught) /\ local' = local
                 [] o = "notok" ->
                      Return(text("Failed to fetch product groups", 502)) /\ local' = local
                 [] OTHER ->
                      /\ local' = [local EXCEPT
                                     !.groups = backend.product_groups,
                                     !.product_group_id = IF match = Null THEN 0 ELSE match.id]
                      /\ IF match = Null
                         THEN Return(jsonError(400, [error |-> "invalid_product_group",
                                                     product_group |-> body.product_group]))
                         ELSE pc' = "create" /\ response' = response
    /\ UNCHANGED <<now, other, first, route, body, backend, cache>>

CreateWrite ==
    /\ route = "products/create"
    /\ pc = "create"
    /\ \E o \in Outcomes :
        LET call == Call("POST /api/objects/products", 0, o)
            id   == Len(backend.products) + 1
        IN  /\ calls' = Append(calls, call)
            /\ faultsLeft' = Spend(<<call>>)
            /\ CASE o = "throw" -> Return(Uncaught) /\ UNCHANGED <<backend, local>>
                 [] o = "notok" ->
                      /\ Return(text("Failed to create product", 502))
                      /\ UNCHANGED <<backend, local>>
                 [] OTHER ->
                      /\ backend' = [backend EXCEPT !.products =
                                        Append(@, [id |-> id, name |-> body.name])]
                      /\ local' = [local EXCEPT !.productId = id]
                      /\ response' = response
                      /\ pc' = IF body.image_url THEN "image" ELSE "invalidate"
    /\ UNCHANGED <<now, other, first, route, body, cache>>

\* the outcomes of fetching the image: the three of any call, a body above
\* the size ceiling, a content type that is not an image
ImageOutcomes ==
    IF faultsLeft > 0 THEN {"ok", "notok", "throw", "too_large", "not_image"} ELSE {"ok"}

CreateImageFetch ==
    /\ route = "products/create"
    /\ pc = "image"
    /\ \E o \in ImageOutcomes :
        /\ calls' = Append(calls, Call("GET image_url", 0, o))
        /\ faultsLeft' = IF o = "ok" THEN faultsLeft ELSE faultsLeft - 1
        /\ IF o = "ok"
           THEN pc' = "upload" /\ local' = local
           ELSE /\ pc' = "invalidate"
                /\ local' = [local EXCEPT !.imageError = o]
    /\ UNCHANGED <<now, other, first, route, body, backend, cache, response>>

\* mutant: a rejected upload fails the creation
CreateImageUpload_Fatal ==
    /\ route = "products/create"
    /\ pc = "upload"
    /\ \E o \in Outcomes :
        LET call == Call("POST /api/files/productpictures/{id}", 0, o)
        IN  /\ calls' = Append(calls, call)
            /\ faultsLeft' = Spend(<<call>>)
            /\ IF o = "ok"
               THEN /\ pc' = "invalidate" /\ response' = response
                    /\ local' = [local EXCEPT !.imageAttached = TRUE]
               ELSE Return(text("Failed to upload image", 502)) /\ local' = local
    /\ UNCHANGED <<now, other, first, route, body, backend, cache>>

CreateImageUpload ==
    /\ route = "products/create"
    /\ pc = "upload"
    /\ \E o \in Outcomes :
        LET call == Call("POST /api/files/productpictures/{id}", 0, o)
        IN  /\ calls' = Append(calls, call)
            /\ faultsLeft' = Spend(<<call>>)
            /\ pc' = "invalidate"
            /\ local' = IF o = "ok"
                        THEN [local EXCEPT !.imageAttached = TRUE]
                        ELSE [local EXCEPT !.imageError = "upload failed"]
    /\ UNCHANGED <<now, other, first, route, body, backend, cache, response>>

\* await caches.default.delete(...); return json({status: "created", ...})
CreateInvalidate ==
    /\ route = "products/create"
    /\ pc = "invalidate"
    /\ cache' = [cache EXCEPT ![cacheKeyUrl("products")] = Null]
    /\ Return(json([status   |-> "created",
                    product  |-> [id |-> local.productId, name |-> body.name],
                    location |-> local.location.name,
                    quantity_units |->
                        [role \in DOMAIN local.resolvedUnits |-> local.resolvedUnits[role].name],
                    image |-> [attached |-> local.imageAttached,
                               error    |-> local.imageError]], 200))
    /\ UNCHANGED <<now, other, first, route, body, backend, calls, local, faultsLeft>>

(***************************************************************************)
(* The reading handlers.  A GET request has no body: body holds the        *)
(* parameters of its query string, each a string (empty when absent).      *)
(***************************************************************************)
Str(s) == [type |-> "string", value |-> s]

NaN == [type |-> "number", nan |-> TRUE]

DigitChars == <<"0", "1", "2", "3", "4", "5", "6", "7", "8", "9">>

IsDigit(c) == \E d \in 1..10 : DigitChars[d] = c

DigitValue(c) == (CHOOSE d \in 1..10 : DigitChars[d] = c) - 1

RECURSIVE Decimal(_)
Decimal(s) == IF s = <<>> THEN 0 ELSE 10 * Decimal(SubSeq(s, 1, Len(s) - 1)) + DigitValue(s[Len(s)])

\* Number(s) for a string of digits, letters and signs: the empty string is
\* 0, an optionally signed run of digits is its value, anything else is NaN
ToNumber(s) ==
    LET digits == IF s # <<>> /\ s[1] \in {"-", "+"} THEN Tail(s) ELSE s
    IN  IF s = <<>> THEN Number(0)
        ELSE IF digits = <<>> \/ \E i \in 1..Len(digits) : ~IsDigit(digits[i]) THEN NaN
        ELSE IF s[1] = "-" THEN Number(0 - Decimal(digits))
        ELSE Number(Decimal(digits))

MAX_LIMIT == 10

DEFAULT_LIMIT == 5

\* Math.min(Number(limitParam) || 5, 10); searchParams.get gives null for an
\* absent parameter, and Number(null) is 0
searchLimit(limitParam) ==
    LET n == ToNumber(limitParam)
    IN  IF n = NaN \/ n.value = 0 THEN DEFAULT_LIMIT ELSE Min(n.value, MAX_LIMIT)

\* Math.min(1, m.score / 100), as a fraction
confidence(score) == [num |-> Min(100, score), den |-> 100]

(***************************************************************************)
(* GET /api/enriched/products/search                                       *)
(***************************************************************************)
Search ==
    /\ route = "products/search"
    /\ pc = "start"
    /\ IF body.q = <<>> \/ trim(body.q) = <<>>
       THEN /\ Return(jsonError(400, [error |-> "missing_query"]))
            /\ UNCHANGED <<cache, calls, local, faultsLeft>>
       ELSE \E o \in Outcomes :
            LET r       == getCachedProducts(cache, o)
                limit   == searchLimit(body.limit)
                matches == rankedMatches(r.data.json, normalize(body.q), limit)
            IN  /\ cache' = r.cache
                /\ calls' = calls \o r.calls
                /\ faultsLeft' = Spend(r.calls)
                /\ IF r.threw
                   THEN Return(text("Failed to fetch products", 502)) /\ local' = local
                   ELSE /\ local' = [limit |-> limit, products |-> r.data.json,
                                     matches |-> matches]
                        /\ Return(json([query   |-> body.q,
                                        matches |-> [i \in 1..Len(matches) |->
                                            [id   |-> matches[i].id,
                                             name |-> matches[i].name,
                                             confidence |-> confidence(matches[i].score)]]],
                                       200))
    /\ UNCHANGED <<now, other, first, route, body, backend>>

(***************************************************************************)
(* Rows of the views.  A property of a backend row is a number, a string,  *)
(* null (Null) or absent (Undefined).  Object keys are strings, so a map   *)
(* built from numeric ids answers the id as a number and as a string.      *)
(***************************************************************************)
Unknown == <<"U", "n", "k", "n", "o", "w", "n">>

\* a ?? b
nullish(a, b) == IF a = Null \/ a = Undefined THEN b ELSE a

\* the k-th smallest member of a set of positions
nth(positions, k) ==
    CHOOSE p \in positions : Cardinality({q \in positions : q < p}) = k - 1

\* mutant: the product ids of the rows, repeated as the rows repeat them
productIds_Repeated(rows) ==
    LET numeric == {k \in 1..Len(rows) : typeof(rows[k].product_id) = "number"}
    IN  [n \in 1..Cardinality(numeric) |-> rows[nth(numeric, n)].product_id.value]

\* [...new Set(rows.map(r => r.product_id).filter(id => typeof id === "number"))]:
\* a Set keeps its values in the order they were first added in
productIds(rows) ==
    LET numeric == {k \in 1..Len(rows) : typeof(rows[k].product_id) = "number"}
        firsts  == {k \in numeric :
                       \A j \in numeric : j < k => rows[j].product_id # rows[k].product_id}
    IN  [n \in 1..Cardinality(firsts) |-> rows[nth(firsts, n)].product_id.value]

\* String(n) for a natural number
RECURSIVE numberToString(_)
numberToString(n) ==
    IF n < 10 THEN <<DigitChars[n + 1]>>
    ELSE Append(numberToString(n \div 10), DigitChars[(n % 10) + 1])

\* the key obj[v] reads: the string of v
PropertyKey(v) ==
    CASE v = Null      -> <<"n", "u", "l", "l">>
      [] v = Undefined -> <<"u", "n", "d", "e", "f", "i", "n", "e", "d">>
      [] typeof(v) = "number" -> numberToString(v.value)
      [] OTHER -> v.value

\* mutant: a product missing from the map is named null
productName_Null(products, product_id) ==
    LET hasId(p) == PropertyKey(product_id) = numberToString(p.id)
    IN  IF find(products, hasId) = Null THEN Null ELSE Str(find(products, hasId).name)

\* productMap[product_id] ?? "Unknown", productMap being
\* Object.fromEntries(products.map(p => [p.id, p.name]))
productName(products, product_id) ==
    LET hasId(p) == PropertyKey(product_id) = numberToString(p.id)
    IN  IF find(products, hasId) = Null THEN Str(Unknown) ELSE Str(find(products, hasId).name)

\* JSON.stringify leaves out the properties whose value is undefined
omitUndefined(obj) == [k \in {f \in DOMAIN obj : obj[f] # Undefined} |-> obj[k]]

(***************************************************************************)
(* GET /api/enriched/stock                                                 *)
(***************************************************************************)
MAX_STOCK_ROWS == 25

StockGet ==
    /\ route = "stock"
    /\ pc = "start"
    /\ \E o \in Outcomes :
        LET call  == Call("GET /api/objects/stock", 0, o)
            stock == slice(backend.stock, MAX_STOCK_ROWS)
        IN  /\ calls' = Append(calls, call)
            /\ faultsLeft' = Spend(<<call>>)
            /\ CASE o = "throw" -> Return(Uncaught) /\ local' = local
                 [] o = "notok" -> Return(text("Failed to fetch stock", 502)) /\ local' = local
                 [] OTHER ->
                      /\ local' = [stock |-> stock, productIds |-> productIds(stock)]
                      /\ IF productIds(stock) = <<>>
                         THEN Return(json(<<>>, 200))
                         ELSE pc' = "products" /\ response' = response
    /\ UNCHANGED <<now, other, first, route, body, backend, cache>>

StockGetProducts ==
    /\ route = "stock"
    /\ pc = "products"
    /\ \E o \in Outcomes :
        LET r == getCachedProducts(cache, o)
            enriched ==
                [k \in 1..Len(local.stock) |->
                    LET s == local.stock[k]
                    IN  omitUndefined(
                            [stock_id         |-> s.id,
                             product_id       |-> s.product_id,
                             product_name     |-> productName(r.data.json, s.product_id),
                             amount           |-> s.amount,
                             best_before_date |-> nullish(s.best_before_date, Null)])]
        IN  /\ cache' = r.cache
            /\ calls' = calls \o r.calls
            /\ faultsLeft' = Spend(r.calls)
            /\ IF r.threw
               THEN Return(text("Failed to fetch products", 502))
               ELSE Return(json(enriched, 200))
    /\ UNCHANGED <<now, other, first, route, body, backend, local>>

(***************************************************************************)
(* GET /api/enriched/shopping_list                                         *)
(***************************************************************************)
MAX_LIST_ITEMS == 50

DETAILS_TTL == 3600

getCachedStores(c, outcome) ==
    throwIfNoData(cacheGetJson(c, cacheKeyUrl("stores"),
        [kind |-> "GET /api/objects/shopping_locations", outcome |-> outcome,
         payload |-> backend.shopping_locations], CACHE_DURATION))

stockProductKey(productId) == Append(cacheKeyUrl("stock-product"), productId)

\* obj?.field
optional(obj, field) == IF obj = Null \/ obj = Undefined THEN Undefined ELSE obj[field]

\* the entry of lastPurchaseMap made from a product's details
lastPurchase(details) ==
    [last_price    |-> nullish(details.last_price, Null),
     store_id      |-> nullish(details.last_shopping_location_id, Null),
     price_qu_id   |-> nullish(nullish(optional(details.product, "qu_id_price"),
                                       details.qu_id_price), Null),
     price_qu_name |-> nullish(optional(details.quantity_unit_price, "name"), Null),
     price_to_stock_factor    |-> nullish(details.qu_conversion_factor_price_to_stock, Null),
     purchase_to_stock_factor |-> nullish(details.qu_conversion_factor_purchase_to_stock, Null)]

\* lastPurchaseMap[product_id] ?? {}
lastOf(lastPurchaseMap, product_id) ==
    IF \E id \in DOMAIN lastPurchaseMap : numberToString(id) = PropertyKey(product_id)
    THEN lastPurchaseMap[CHOOSE id \in DOMAIN lastPurchaseMap :
                            numberToString(id) = PropertyKey(product_id)]
    ELSE [last_price |-> Undefined, store_id |-> Undefined, price_qu_id |-> Undefined,
          price_qu_name |-> Undefined, price_to_stock_factor |-> Undefined,
          purchase_to_stock_factor |-> Undefined]

\* last.store_id ? (storeMap[last.store_id] ?? null) : null
lastStore(stores, store_id) ==
    LET hasId(s) == PropertyKey(store_id) = numberToString(s.id)
    IN  IF store_id \in {Null, Undefined, Number(0), Str(<<>>)} THEN Null
        ELSE IF find(stores, hasId) = Null THEN Null
        ELSE Str(find(stores, hasId).name)

enrichedItem(i, products, stores, lastPurchaseMap) ==
    LET last == lastOf(lastPurchaseMap, i.product_id)
    IN  omitUndefined(
            [product_id   |-> i.product_id,
             product_name |-> productName(products, i.product_id),
             amount       |-> i.amount,
             note         |-> nullish(i.note, Null),
             last_store   |-> lastStore(stores, last.store_id),
             pricing      |-> omitUndefined(
                 [last_price_per_price_unit |-> last.last_price,
                  price_unit                |-> last.price_qu_name,
                  price_qu_id               |-> last.price_qu_id,
                  amount                    |-> i.amount,
                  shopping_list_qu_id       |-> nullish(i.qu_id, Null),
                  purchase_to_stock_factor  |-> last.purchase_to_stock_factor,
                  price_to_stock_factor     |-> last.price_to_stock_factor])])

ListGetLists ==
    /\ route = "shopping_list"
    /\ pc = "start"
    /\ \E o \in Outcomes :
        LET r     == getCachedShoppingLists(cache, o)
            lists == r.data.json
            hasId(l) == numberToString(l.id) = body.list_id
            chosen(l) == /\ pc' = "items" /\ response' = response
                         /\ local' = [selectedList |-> l, items |-> <<>>, productIds |-> <<>>,
                                      products |-> <<>>, stores |-> <<>>, k |-> 1,
                                      lastPurchaseMap |-> [id \in {} |-> Null]]
        IN  /\ cache' = r.cache
            /\ calls' = calls \o r.calls
            /\ faultsLeft' = Spend(r.calls)
            /\ IF r.threw
               THEN Return(text("Failed to fetch shopping lists", 502)) /\ local' = local
               ELSE IF body.list_id # <<>>
               THEN IF find(lists, hasId) = Null
                    THEN /\ Return(jsonError(400, [error |-> "invalid_shopping_list_id"]))
                         /\ local' = local
                    ELSE chosen(find(lists, hasId))
               ELSE IF Len(lists) = 1
               THEN chosen(lists[1])
               ELSE IF Len(lists) > 1
               THEN /\ Return(json([error |-> "multiple_lists", lists |-> lists], 400))
                    /\ local' = local
               ELSE /\ Return(json([list |-> Null, items |-> <<>>], 200))
                    /\ local' = local
    /\ UNCHANGED <<now, other, first, route, body, backend>>

ListGetItems ==
    /\ route = "shopping_list"
    /\ pc = "items"
    /\ \E o \in Outcomes :
        LET call  == Call("GET /api/objects/shopping_list", 0, o)
            items == slice(backend.shopping_list, MAX_LIST_ITEMS)
        IN  /\ calls' = Append(calls, call)
            /\ faultsLeft' = Spend(<<call>>)
            /\ CASE o = "throw" -> Return(Uncaught) /\ local' = local
                 [] o = "notok" ->
                      /\ Return(text("Failed to fetch shopping list items", 502))
                      /\ local' = local
                 [] OTHER ->
                      /\ local' = [local EXCEPT !.items = items,
                                                !.productIds = productIds(items)]
                      /\ pc' = "products" /\ response' = response
    /\ UNCHANGED <<now, other, first, route, body, backend, cache>>

ListGetProducts ==
    /\ route = "shopping_list"
    /\ pc = "products"
    /\ \E o \in Outcomes :
        LET r == getCachedProducts(cache, o)
        IN  /\ cache' = r.cache
            /\ calls' = calls \o r.calls
            /\ faultsLeft' = Spend(r.calls)
            /\ IF r.threw
               THEN Return(text("Failed to fetch products", 502)) /\ local' = local
               ELSE /\ local' = [local EXCEPT !.products = r.data.json]
                    /\ pc' = "stores" /\ response' = response
    /\ UNCHANGED <<now, other, first, route, body, backend>>

ListGetStores ==
    /\ route = "shopping_list"
    /\ pc = "stores"
    /\ \E o \in Outcomes :
        LET r == getCachedStores(cache, o)
        IN  /\ cache' = r.cache
            /\ calls' = calls \o r.calls
            /\ faultsLeft' = Spend(r.calls)
            /\ IF r.threw
               THEN Return(text("Failed to fetch stores", 502)) /\ local' = local
               ELSE /\ local' = [local EXCEPT !.stores = r.data.json]
                    /\ pc' = "details" /\ response' = response
    /\ UNCHANGED <<now, other, first, route, body, backend>>

\* await Promise.all(productIds.map(async productId => ...)): the callback of
\* the k-th product id, and after the last one the response.  A callback
\* that throws rejects Promise.all.
ListGetDetails ==
    /\ route = "shopping_list"
    /\ pc = "details"
    /\ IF local.k > Len(local.productIds)
       THEN /\ Return(json([list  |-> local.selectedList,
                            items |-> [n \in 1..Len(local.items) |->
                                enrichedItem(local.items[n], local.products, local.stores,
                                             local.lastPurchaseMap)]], 200))
            /\ UNCHANGED <<cache, calls, local, faultsLeft>>
       ELSE \E o \in Outcomes :
            LET productId == local.productIds[local.k]
                r == cacheGetJson(cache, stockProductKey(productId),
                         [kind |-> "GET /api/stock/products/{id}", outcome |-> o,
                          payload |-> backend.details[productId]], DETAILS_TTL)
                logged == [n \in 1..Len(r.calls) |-> [r.calls[n] EXCEPT !.line = productId]]
            IN  /\ cache' = r.cache
                /\ calls' = calls \o logged
                /\ faultsLeft' = Spend(r.calls)
                /\ IF r.threw
                   THEN Return(Uncaught) /\ local' = local
                   ELSE /\ pc' = pc /\ response' = response
                        /\ local' = [local EXCEPT
                              !.k = @ + 1,
                              !.lastPurchaseMap =
                                  IF r.data = Null \/ r.data.json = Null
                                  THEN @
                                  ELSE [id \in DOMAIN @ \cup {productId} |->
                                           IF id = productId
                                           THEN lastPurchase(r.data.json)
                                           ELSE @[id]]]
    /\ UNCHANGED <<now, other, first, route, body, backend>>

(***************************************************************************)
(* One request to one of the four writing handlers.  Init is the request   *)
(* and the state of the backend and of the cache when it arrives: the      *)
(* cache is either empty or holds what the backend's collections are.      *)
(***************************************************************************)
CatalogNames == {<<"a">>, <<"A", "b">>}

Catalogs == {Catalog(names) : names \in SeqsUpTo(CatalogNames, MaxCatalog)}

ProductNames == {<<>>, <<"a">>, <<"b">>}

Amounts == {Number(1), Undefined}

Prices == {Number(2), Undefined}

ShoppingLists == {Catalog(names) : names \in {<<>>, <<<<"a">>>>, <<<<"a">>, <<"b">>>>}}

ListIds == {0, 1, 3}

EmptyCache == [k \in CacheKeys |-> Null]

\* an entry stored at time 0 with the lifetime of the collections
Fresh(text_) == [text |-> text_, maxAge |-> CACHE_DURATION, storedAt |-> 0]

WarmCache(b) ==
    [k \in CacheKeys |->
        CASE k = cacheKeyUrl("products")       -> Fresh(b.products)
          [] k = cacheKeyUrl("shopping_lists") -> Fresh(b.shopping_lists)
          [] k = cacheKeyUrl("locations")      -> Fresh(b.locations)
          [] k = cacheKeyUrl("quantity-units") -> Fresh(b.quantity_units)]

Caches(b) == {EmptyCache, WarmCache(b)}

\* the locations, quantity units and product groups of the backend: with
\* and without the configured defaults
Worlds ==
    {[locations      |-> Catalog(<<<<"F">>, <<"b">>>>),
      quantity_units |-> Catalog(<<<<"P">>, <<"k">>>>),
      product_groups |-> Catalog(<<<<"g">>>>)],
     [locations      |-> Catalog(<<<<"b">>>>),
      quantity_units |-> Catalog(<<<<"k">>>>),
      product_groups |-> <<>>]}

Backends(lists) ==
    {[products |-> c, shopping_lists |-> l, locations |-> w.locations,
      quantity_units |-> w.quantity_units, product_groups |-> w.product_groups] :
        c \in Catalogs, l \in lists, w \in {CHOOSE v \in Worlds : Len(v.locations) = 2}}

CreateBackends ==
    {[products |-> c, shopping_lists |-> <<>>, locations |-> w.locations,
      quantity_units |-> w.quantity_units, product_groups |-> w.product_groups] :
        c \in Catalogs, w \in Worlds}

ListAddBodies ==
    {Null} \cup [product : ProductNames, amount : Amounts, shopping_list_id : ListIds]

StockAddBodies ==
    {Null} \cup [product : ProductNames, amount : Amounts, price : Prices]

\* the lines of a bulk request: a line is null or an object; the caller's
\* line reference of the line at position k is 100 + k
LineShapes ==
    {Null,
     [product |-> <<"a">>, amount |-> Number(1), price |-> Number(2)],
     [product |-> <<"a">>, amount |-> Number(1), price |-> Undefined],
     [product |-> <<"b">>, amount |-> Number(1), price |-> Undefined],
     [product |-> <<>>,    amount |-> Number(1), price |-> Undefined],
     [product |-> <<"a">>, amount |-> Undefined, price |-> Undefined]}

Lines(shapes) ==
    [k \in 1..Len(shapes) |->
        IF shapes[k] = Null THEN Null
        ELSE [line |-> 100 + k, product |-> shapes[k].product,
              amount |-> shapes[k].amount, price |-> shapes[k].price]]

BulkBodies ==
    {Null, [items |-> Undefined]}
        \cup {[items |-> Array(Lines(shapes))] : shapes \in SeqsUpTo(LineShapes, MaxLines)}

UnitChoices == [stock : {<<>>, <<"k">>}, purchase : {<<>>, <<"k">>},
                consume : {<<>>, <<"k">>}, price : {<<>>, <<"k">>}]

CreateBodies ==
    {Null} \cup [name : {<<>>, <<"A", "!">>, <<"b">>},
                 default_location : {<<>>, <<"b">>, <<"x">>},
                 quantity_units : UnitChoices,
                 product_group : {<<>>, <<"g">>},
                 image_url : BOOLEAN]

(***************************************************************************)
(* Requests to the reading handlers.  The rows of the backend carry their  *)
(* position (the list item's amount, the stock row's id), so that a row of *)
(* a response tells which backend row it was built from.                   *)
(***************************************************************************)
RowShapes ==
    {[product_id |-> Number(1),    opt |-> Undefined],
     [product_id |-> Number(3),    opt |-> Str(<<"x">>)],
     [product_id |-> Str(<<"1">>), opt |-> Undefined],
     [product_id |-> Undefined,    opt |-> Null]}

ListItems(shapes) ==
    [k \in 1..Len(shapes) |->
        [product_id |-> shapes[k].product_id, amount |-> Number(k),
         note |-> shapes[k].opt, qu_id |-> Undefined]]

StockRows(shapes) ==
    [k \in 1..Len(shapes) |->
        [id |-> Number(k), product_id |-> shapes[k].product_id, amount |-> Number(1),
         best_before_date |-> shapes[k].opt]]

\* GET /api/stock/products/{id} of a product that was purchased at the
\* store with that id, and of one that never was
Purchased(store) ==
    [last_price |-> Number(2), last_shopping_location_id |-> Number(store),
     product |-> [qu_id_price |-> Number(1)], qu_id_price |-> Undefined,
     quantity_unit_price |-> [name |-> Str(<<"k">>)],
     qu_conversion_factor_price_to_stock |-> Number(1),
     qu_conversion_factor_purchase_to_stock |-> Number(1)]

NeverPurchased ==
    [last_price |-> Null, last_shopping_location_id |-> Null,
     product |-> Undefined, qu_id_price |-> Number(1),
     quantity_unit_price |-> Undefined,
     qu_conversion_factor_price_to_stock |-> Undefined,
     qu_conversion_factor_purchase_to_stock |-> Undefined]

ProductIds == 1..3

DetailSets ==
    {[id \in ProductIds |-> IF id = 1 THEN Purchased(1) ELSE NeverPurchased],
     [id \in ProductIds |-> IF id = 1 THEN NeverPurchased ELSE Purchased(2)]}

ViewCatalogs == {Catalog(<<<<"a">>>>), Catalog(<<<<"a">>, <<"A", "b">>>>)}

ViewBackend(products, lists, items, stock, details) ==
    [products |-> products, shopping_lists |-> lists, locations |-> <<>>,
     quantity_units |-> <<>>, product_groups |-> <<>>,
     shopping_locations |-> Catalog(<<<<"s">>>>),
     shopping_list |-> items, stock |-> stock, details |-> details]

ViewCacheKeys ==
    CacheKeys \cup {cacheKeyUrl("stores")} \cup {stockProductKey(id) : id \in ProductIds}

\* an entry stored at time 0 with the lifetime of the product details
FreshDetails(text_) == [text |-> text_, maxAge |-> DETAILS_TTL, storedAt |-> 0]

ViewCaches(b) ==
    {[k \in ViewCacheKeys |-> Null],
     [k \in ViewCacheKeys |->
        IF k \in CacheKeys THEN WarmCache(b)[k]
        ELSE IF k = cacheKeyUrl("stores") THEN Fresh(b.shopping_locations)
        ELSE FreshDetails(b.details[k[5]])]}

ListGetQueries == [list_id : {<<>>, <<"1">>, <<"3">>}]

ListGetBackends ==
    {ViewBackend(c, l, ListItems(shapes), <<>>, d) :
        c \in ViewCatalogs, l \in ShoppingLists, shapes \in SeqsUpTo(RowShapes, MaxLines),
        d \in DetailSets}

StockGetBackends ==
    {ViewBackend(c, <<>>, <<>>, StockRows(shapes), CHOOSE d \in DetailSets : TRUE) :
        c \in Catalogs, shapes \in SeqsUpTo(RowShapes, MaxLines)}

LimitParams == {<<>>, <<"0">>, <<"-", "1">>, <<"a">>, <<"1", "1">>, <<"1">>}

SearchQueries == [q : {<<>>, <<" ">>, <<"a">>, <<"B">>}, limit : LimitParams]

SearchBackends ==
    {ViewBackend(c, <<>>, <<>>, <<>>, CHOOSE d \in DetailSets : TRUE) : c \in Catalogs}

InitView(r, queries, backends) ==
    /\ route = r
    /\ pc = "start"
    /\ body \in queries
    /\ backend \in backends
    /\ cache \in ViewCaches(backend)
    /\ calls = <<>>
    /\ local = Idle
    /\ response = Null
    /\ faultsLeft = MaxFaults
    /\ Alone

NextListGet ==
    ListGetLists \/ ListGetItems \/ ListGetProducts \/ ListGetStores \/ ListGetDetails

NextStockGet == StockGet \/ StockGetProducts

NextViews == NextListGet \/ NextStockGet \/ Search

InitRequest(r, bodies, backends) ==
    /\ route = r
    /\ pc = "start"
    /\ body \in bodies
    /\ backend \in backends
    /\ cache \in Caches(backend)
    /\ calls = <<>>
    /\ local = Idle
    /\ response = Null
    /\ faultsLeft = MaxFaults
    /\ Alone

Init ==
    \/ InitRequest("shopping_list/add", ListAddBodies, Backends(ShoppingLists))
    \/ InitRequest("stock/add", StockAddBodies, Backends({<<>>}))
    \/ InitRequest("stock/add/bulk", BulkBodies, Backends({<<>>}))
    \/ InitRequest("products/create", CreateBodies, CreateBackends)
    \/ InitView("shopping_list", ListGetQueries, ListGetBackends)
    \/ InitView("stock", {Idle}, StockGetBackends)
    \/ InitView("products/search", SearchQueries, SearchBackends)

NextListAdd == ListAddValidate \/ ListAddLists \/ ListAddProducts \/ ListAddWrite

NextStockAdd == StockAddValidate \/ StockAddProducts \/ StockAddDetails \/ StockAddWrite

NextBulk == BulkValidate \/ BulkProducts \/ BulkLine \/ BulkLineAdd

NextCreate ==
    \/ CreateValidate \/ CreateDedupe \/ CreateLocation \/ CreateUnits \/ CreateGroup
    \/ CreateWrite \/ CreateImageFetch \/ CreateImageUpload \/ CreateInvalidate

Next == NextListAdd \/ NextStockAdd \/ NextBulk \/ NextCreate \/ NextViews

Spec == Init /\ [][Next]_vars

(***************************************************************************)
(* Bulk requests up to and beyond the cap: the lines repeat a pattern of   *)
(* one or two line shapes, the batch has up to MaxBulkLen lines, and at    *)
(* most one backend call fails.                                            *)
(***************************************************************************)
Cycle(pattern, n) == [k \in 1..n |-> pattern[((k - 1) % Len(pattern)) + 1]]

CapPatterns == SeqsUpTo(LineShapes, 2) \ {<<>>}

CapLengths == 1..MaxBulkLen

CapBodies == {[items |-> Array(Lines(Cycle(p, n)))] : p \in CapPatterns, n \in CapLengths}

CapBackends ==
    {[products |-> Catalog(<<<<"a">>>>), shopping_lists |-> <<>>, locations |-> <<>>,
      quantity_units |-> <<>>, product_groups |-> <<>>]}

InitBulkCap ==
    /\ route = "stock/add/bulk"
    /\ pc = "start"
    /\ body \in CapBodies
    /\ backend \in CapBackends
    /\ cache \in Caches(backend)
    /\ calls = <<>>
    /\ local = Idle
    /\ response = Null
    /\ faultsLeft \in {0, 1}
    /\ Alone

SpecBulkCap == InitBulkCap /\ [][NextBulk]_vars

(***************************************************************************)
(* Properties of the writing handlers.                                     *)
(***************************************************************************)
Done == pc = "done"

Completed == Done /\ response.type = "json" /\ response.status = 200

HasCall(kinds) == \E i \in 1..Len(calls) : calls[i].kind \in kinds

\* the resolution of a name is NotFound or Ambiguous, by the scores of the
\* candidates: none is non-zero, or several are and none is exact
Unresolved(products, q) ==
    \/ NonZero(products, q) = {}
    \/ Cardinality(NonZero(products, q)) >= 2 /\ ~HasExact(products, q)

ResolvingRoutes == {"shopping_list/add", "stock/add", "stock/add/bulk"}

ProductWrites ==
    {"POST /api/stock/shoppinglist/add-product",
     "POST /api/objects/products/{id}/add",
     "POST /api/objects/product_prices"}

\* the product name of the request or bulk line a call was made for
NameOfCall(c) == IF c.line = 0 THEN body.product ELSE local.safeItems[c.line].product

\* C1: no shopping-list add, stock add or price write is issued for a
\* request or bulk line whose product name resolves to NotFound or Ambiguous.
C1_NoWriteUnresolved ==
    route \in ResolvingRoutes
    => \A i \in 1..Len(calls) :
          calls[i].kind \in ProductWrites
          => ~Unresolved(local.products, NameOfCall(calls[i]))

BulkResult(k) == response.body.results[k]

\* a bulk request with an unresolved line and an added line: the only
\* writes are those of the added line
C1_Witness ==
    /\ route = "stock/add/bulk"
    /\ Completed
    /\ \E j, k \in 1..Len(response.body.results) :
          /\ BulkResult(j).status = "error"
          /\ BulkResult(j).error \in {"product_not_found", "multiple_products"}
          /\ BulkResult(k).status = "added"
          /\ \A i \in 1..Len(calls) : calls[i].line # j

CreateWrites == {"POST /api/objects/products", "POST /api/files/productpictures/{id}"}

Named(xs, name) == \E i \in 1..Len(xs) : normalize(xs[i].name) = normalize(name)

\* the four gates of product creation, on what the handler read
DedupePassed == ~Named(local.products, body.name)

LocationPassed ==
    Named(local.locations, orDefault(body.default_location, DEFAULT_LOCATION_NAME))

UnitsPassed ==
    \A role \in DOMAIN DEFAULT_UNITS :
        Named(local.units, orDefault(body.quantity_units[role], DEFAULT_UNITS[role]))

GroupPassed == body.product_group # <<>> => Named(local.groups, body.product_group)

\* C2: a product-creation request in which a gate fails (duplicate name,
\* unresolvable location, quantity-unit role or supplied product group)
\* issues no creation write and no image upload; the creation write comes
\* only after the four gates have passed.
C2_NoWriteBeforeGates ==
    (route = "products/create" /\ HasCall(CreateWrites))
    => (DedupePassed /\ LocationPassed /\ UnitsPassed /\ GroupPassed)

\* a request rejected for a quantity-unit role although its name is new and
\* its location resolves: nothing was written
C2_Witness ==
    /\ route = "products/create"
    /\ Done
    /\ response.type = "json"
    /\ response.status = 400
    /\ response.body.error = "invalid_quantity_unit"
    /\ DedupePassed /\ LocationPassed /\ ~UnitsPassed
    /\ ~HasCall(CreateWrites)

\* the loop of a bulk request has ended: by the completed response, or by
\* an exception thrown in the loop
BulkLoopEnded ==
    /\ route = "stock/add/bulk"
    /\ Done
    /\ response.type \in {"exception"} \/ (response.type = "json" /\ response.status = 200)

FailedCall(j, kind) ==
    \E i \in 1..Len(calls) :
        calls[i].line = j /\ calls[i].kind = kind /\ calls[i].outcome \in {"notok", "throw"}

\* a step of line j has failed: its shape check, its resolution, the fetch
\* of its product's details or its stock-add write
LineFailed(j) ==
    LET item == local.safeItems[j]
    IN  \/ item = Null
        \/ item.product = <<>>
        \/ typeof(item.amount) # "number"
        \/ Unresolved(local.products, item.product)
        \/ FailedCall(j, "GET /api/stock/products/{id}")
        \/ FailedCall(j, "POST /api/objects/products/{id}/add")

\* C3: the failure of a step of one line of a bulk request gives that line
\* an error result and nothing more: every other line is still processed
\* and has its own result, and the request returns the completed response.
C3_LineFailureIsolated ==
    BulkLoopEnded
    => \A i, j \in 1..Len(local.safeItems) :
          (i # j /\ j <= local.idx /\ LineFailed(j))
          => /\ Completed
             /\ response.body.status = "completed"
             /\ Len(response.body.results) = Len(local.safeItems)
             /\ BulkResult(j).status = "error"
             /\ BulkResult(i).line = local.safeItems[i].line

\* C4: a bulk request that reaches the loop returns one result per retained
\* line, in the order of the lines, each with the line reference of its line.
C4_OneResultPerLine ==
    BulkLoopEnded
    => /\ Completed
       /\ Len(response.body.results) = Len(local.safeItems)
       /\ \A k \in 1..Len(local.safeItems) : BulkResult(k).line = local.safeItems[k].line

\* C5: of a bulk request with n lines only the first min(n, 25) are
\* processed: no backend call is made for a line behind position 25, and
\* the completed response has min(n, 25) results, those of the first lines,
\* and that number as its total.
C5_BulkCap ==
    LET n == Len(body.items.value)
    IN  route = "stock/add/bulk"
        => /\ \A i \in 1..Len(calls) : calls[i].line <= 25
           /\ Completed
              => /\ response.body.summary.total = Min(n, 25)
                 /\ Len(response.body.results) = Min(n, 25)
                 /\ \A k \in 1..Len(response.body.results) :
                       BulkResult(k).line = body.items.value[k].line

\* a batch of more than 25 lines, completed with a total of 25 and with
\* backend calls made for line 25
C5_Witness ==
    /\ route = "stock/add/bulk"
    /\ Completed
    /\ Len(body.items.value) > 25
    /\ response.body.summary.total = 25
    /\ \E i \in 1..Len(calls) : calls[i].line = 25

\* C6: in a completed bulk response the summary counts the results: added
\* those of status added, errors those of status error, and added + errors
\* = total = the number of results.
C6_SummaryCounts ==
    (route = "stock/add/bulk" /\ Completed)
    => LET r == response.body.results
           s == response.body.summary
       IN  /\ s.added = Cardinality({k \in 1..Len(r) : r[k].status = "added"})
           /\ s.errors = Cardinality({k \in 1..Len(r) : r[k].status = "error"})
           /\ s.added + s.errors = s.total
           /\ s.total = Len(r)

\* three lines whose second names a product that does not exist
C6_Witness ==
    /\ route = "stock/add/bulk"
    /\ Completed
    /\ Len(response.body.results) = 3
    /\ BulkResult(1).status = "added"
    /\ BulkResult(2).status = "error"
    /\ BulkResult(2).error = "product_not_found"
    /\ BulkResult(3).status = "added"
    /\ response.body.summary = [total |-> 3, added |-> 2, errors |-> 1]

(***************************************************************************)
(* A product creation with another request in flight.  The other request   *)
(* (any handler that calls getCachedProducts) runs cacheGetJson for the    *)
(* product list one await at a time: cache.match, the fetch, cache.put.    *)
(* Its steps interleave with the steps of the creation.                    *)
(***************************************************************************)
ProductsKey == cacheKeyUrl("products")

At(label) == [at |-> label]

\* cached = await cache.match(cacheKey); if (cached) return cached.json()
OtherMatch ==
    /\ other = At("match")
    /\ other' = IF cacheMatch(cache, ProductsKey) # Null
                THEN [at |-> "done", data |-> Json(cacheMatch(cache, ProductsKey).text)]
                ELSE At("fetch")
    /\ UNCHANGED <<now, first, route, pc, body, backend, cache, calls, local, response,
                   faultsLeft>>

\* resp = await fetcher(); if (!resp.ok) return null; text = await resp.text()
OtherFetch ==
    /\ other = At("fetch")
    /\ \E o \in Outcomes :
        LET call == Call("GET /api/objects/products", 0, o)
        IN  /\ calls' = Append(calls, call)
            /\ faultsLeft' = Spend(<<call>>)
            /\ other' = IF o = "ok"
                        THEN [at |-> "put", text |-> backend.products]
                        ELSE [at |-> "done", data |-> Null]
    /\ UNCHANGED <<now, first, route, pc, body, backend, cache, local, response>>

\* await cache.put(cacheKey, stored.clone()); return stored.json()
OtherPut ==
    /\ other # Null /\ other.at = "put"
    /\ cache' = [cache EXCEPT ![ProductsKey] = stored(other.text, CACHE_DURATION)]
    /\ other' = [at |-> "done", data |-> Json(other.text)]
    /\ UNCHANGED <<now, first, route, pc, body, backend, calls, local, response, faultsLeft>>

NextOther == OtherMatch \/ OtherFetch \/ OtherPut

RaceBodies ==
    [name : {<<"A", "!">>, <<"b">>},
     default_location : {<<>>},
     quantity_units : {[stock |-> <<>>, purchase |-> <<>>, consume |-> <<>>, price |-> <<>>]},
     product_group : {<<>>, <<"g">>},
     image_url : BOOLEAN]

RaceBackends == {b \in CreateBackends : Len(b.locations) = 2}

InitRace ==
    /\ route = "products/create"
    /\ pc = "start"
    /\ body \in RaceBodies
    /\ backend \in RaceBackends
    /\ cache \in Caches(backend)
    /\ calls = <<>>
    /\ local = Idle
    /\ response = Null
    /\ faultsLeft \in {0, 1}
    /\ now = 0
    /\ other = At("match")
    /\ first = Null

NextRace == NextCreate \/ NextOther

SpecRace == InitRace /\ [][NextRace]_vars

\* the product list a request starting now obtains through the cache, the
\* backend answering
NextLookup == getCachedProducts(cache, "ok").data.json

Created == route = "products/create" /\ Completed /\ response.body.status = "created"

HasProduct(products, id) == \E i \in 1..Len(products) : products[i].id = id

\* C11: once a product creation has returned "created", the next product
\* lookup through the cache returns a product list that contains the new
\* product, whatever another request reading or populating the product-list
\* entry did while the creation was in progress.
C11_NoStaleWindow ==
    Created => HasProduct(NextLookup, response.body.product.id)

(***************************************************************************)
(* Properties of the cache-aside helper, over every handler.               *)
(***************************************************************************)
\* the backend call the fetcher of a cache key makes
EndpointOf(k) ==
    CASE k = cacheKeyUrl("products")       -> "GET /api/objects/products"
      [] k = cacheKeyUrl("shopping_lists") -> "GET /api/objects/shopping_lists"
      [] k = cacheKeyUrl("stores")         -> "GET /api/objects/shopping_locations"
      [] k = cacheKeyUrl("locations")      -> "GET /api/objects/locations"
      [] k = cacheKeyUrl("quantity-units") -> "GET /api/objects/quantity_units"
      [] OTHER                             -> "GET /api/stock/products/{id}"

FetchesFor(k, c) == c.kind = EndpointOf(k) /\ (Len(k) = 5 => c.line = k[5])

\* the calls the step adds to the log
NewCalls == SubSeq(calls', Len(calls) + 1, Len(calls'))

\* the key the handler looks up in this step, Null if it looks up none (as
\* in a step of the clock)
LookedUp ==
    CASE now' # now -> Null
      [] route = "products/search" /\ pc = "start" /\ trim(body.q) # <<>> -> ProductsKey
      [] route # "products/search" /\ pc \in {"products", "dedupe"}       -> ProductsKey
      [] route \in {"shopping_list/add", "shopping_list"} /\ pc \in {"lists", "start"}
             /\ (pc = "lists" \/ route = "shopping_list") -> cacheKeyUrl("shopping_lists")
      [] pc = "stores"   -> cacheKeyUrl("stores")
      [] pc = "location" -> cacheKeyUrl("locations")
      [] pc = "units"    -> cacheKeyUrl("quantity-units")
      [] route = "shopping_list" /\ pc = "details" /\ local.k <= Len(local.productIds)
             -> stockProductKey(local.productIds[local.k])
      [] OTHER -> Null

\* the payload the step's lookup handed to the handler, where the handler
\* keeps it in a local variable
Obtained ==
    CASE LookedUp = ProductsKey /\ route # "stock"   -> Json(local'.products)
      [] LookedUp = cacheKeyUrl("stores")           -> Json(local'.stores)
      [] LookedUp = cacheKeyUrl("locations")        -> Json(local'.locations)
      [] LookedUp = cacheKeyUrl("quantity-units")   -> Json(local'.units)
      [] OTHER -> Null

\* C12: a lookup of a key that has a live cache entry returns the stored
\* payload and makes no backend call for that key.
C12_HitNoFetch ==
    [][(LookedUp # Null /\ cacheMatch(cache, LookedUp) # Null)
          => /\ \A i \in 1..Len(NewCalls) : ~FetchesFor(LookedUp, NewCalls[i])
             /\ cache' = cache
             /\ Obtained # Null => Obtained = Json(cache[LookedUp].text)]_vars

C12_Witness ==
    /\ route = "products/search"
    /\ Completed
    /\ cache[ProductsKey] # Null
    /\ calls = <<>>
    /\ local.products = cache[ProductsKey].text
    /\ Len(response.body.matches) > 0

\* the step looked the key up, missed, and the fetch returned this outcome
MissedWith(outcome) ==
    /\ LookedUp # Null
    /\ cacheMatch(cache, LookedUp) = Null
    /\ \E i \in 1..Len(NewCalls) :
          FetchesFor(LookedUp, NewCalls[i]) /\ NewCalls[i].outcome = outcome

\* the handler was handed no data: it answers with a gateway failure, or,
\* for the details of one product, records nothing for that product
NoData ==
    IF Len(LookedUp) = 5
    THEN local'.lastPurchaseMap = local.lastPurchaseMap
    ELSE pc' = "done" /\ response'.type = "text" /\ response'.status = 502

\* the entry is the body of a successful response of the key's endpoint:
\* the collection as the backend holds it (the product collection only
\* grows, so an earlier response of it is a prefix of it)
BodyOfResponse(k, entry) ==
    CASE k = cacheKeyUrl("products") ->
             /\ Len(entry.text) <= Len(backend.products)
             /\ entry.text = SubSeq(backend.products, 1, Len(entry.text))
      [] k = cacheKeyUrl("shopping_lists") -> entry.text = backend.shopping_lists
      [] k = cacheKeyUrl("stores")         -> entry.text = backend.shopping_locations
      [] k = cacheKeyUrl("locations")      -> entry.text = backend.locations
      [] k = cacheKeyUrl("quantity-units") -> entry.text = backend.quantity_units
      [] OTHER                             -> entry.text = backend.details[k[5]]

OnlyResponseBodies == \A k \in DOMAIN cache : cache[k] # Null => BodyOfResponse(k, cache[k])

\* C13: a miss whose fetch returns a non-success status leaves the cache
\* unchanged and hands the failure to the caller; every payload the cache
\* ever holds is the body of a successful response of the key's endpoint.
C13_NoNegativeCaching ==
    [][/\ MissedWith("notok") => (cache' = cache /\ NoData)
       /\ OnlyResponseBodies
       /\ OnlyResponseBodies']_vars

C13_Witness ==
    /\ route = "products/search"
    /\ Done
    /\ calls = <<Call("GET /api/objects/products", 0, "notok")>>
    /\ cache[ProductsKey] = Null
    /\ response = text("Failed to fetch products", 502)

(***************************************************************************)
(* Requests served one after another while time passes.  The clock moves   *)
(* in steps of TickSeconds, at any point of a request; when a request has  *)
(* been answered the next one arrives, to the search or to the shopping-   *)
(* list view.  The cache outlives the requests.  A step of the clock is    *)
(* the shortest lifetime an entry is given.                                *)
(***************************************************************************)
TickSeconds == DETAILS_TTL

MaxTicks == 7

Tick ==
    /\ now < MaxTicks * TickSeconds
    /\ now' = now + TickSeconds
    /\ UNCHANGED <<other, first, route, pc, body, backend, cache, calls, local, response,
                   faultsLeft>>

TtlQueries ==
    {[route |-> "products/search", body |-> [q |-> <<"a">>, limit |-> <<>>]],
     [route |-> "shopping_list",   body |-> [list_id |-> <<>>]]}

Arrive ==
    /\ pc = "done"
    /\ \E r \in TtlQueries : route' = r.route /\ body' = r.body
    /\ pc' = "start"
    /\ calls' = <<>>
    /\ local' = Idle
    /\ response' = Null
    /\ UNCHANGED <<now, other, first, backend, cache, faultsLeft>>

TtlBackends ==
    {ViewBackend(Catalog(<<<<"a">>>>), Catalog(<<<<"a">>>>),
                 ListItems(<<CHOOSE s \in RowShapes : s.product_id = Number(1)>>), <<>>, d) :
        d \in DetailSets}

InitTtl ==
    /\ \E r \in TtlQueries : route = r.route /\ body = r.body
    /\ pc = "start"
    /\ backend \in TtlBackends
    /\ cache \in ViewCaches(backend)
    /\ calls = <<>>
    /\ local = Idle
    /\ response = Null
    /\ faultsLeft \in {0, 1}
    /\ Alone

NextTtl == Tick \/ Arrive \/ NextListGet \/ Search

SpecTtl == InitTtl /\ [][NextTtl]_vars

\* the lifetime the handlers give the entries of a key
TtlOf(k) == IF Len(k) = 5 THEN DETAILS_TTL ELSE CACHE_DURATION

Fetched(k) == \E i \in 1..Len(NewCalls) : FetchesFor(k, NewCalls[i])

\* C14: a lookup of a key whose entry was written at t0 with lifetime T is
\* served from the cache, without a fetch, when now - t0 < T, and makes a
\* fresh backend fetch when now - t0 >= T; an entry is written with the
\* lifetime of its key at the time of the write.
C14_ServedUntilTtl ==
    [][(LookedUp # Null /\ cache[LookedUp] # Null) =>
          LET k == LookedUp
              age == now - cache[k].storedAt
          IN  /\ age < TtlOf(k) =>
                    /\ ~Fetched(k)
                    /\ cache'[k] = cache[k]
                    /\ Obtained # Null => Obtained = Json(cache[k].text)
              /\ age >= TtlOf(k) =>
                    /\ Fetched(k)
                    /\ cache'[k] # cache[k] =>
                          /\ cache'[k].storedAt = now
                          /\ cache'[k].maxAge = TtlOf(k)]_vars

\* an entry of the product list written at time 0 has expired and the
\* lookup has replaced it
C14_Witness ==
    /\ route = "products/search"
    /\ Done
    /\ now = CACHE_DURATION
    /\ cache[ProductsKey] # Null
    /\ cache[ProductsKey].storedAt = CACHE_DURATION
    /\ calls = <<Call("GET /api/objects/products", 0, "ok")>>

(***************************************************************************)
(* The shopping-list view of the earlier worker, which does its cache      *)
(* lookups inline.  Its keys for the product list and for the stores are   *)
(* written as plain string literals, so "${CACHE_VERSION}" is not replaced *)
(* by the version; the key for a product's details is a template literal.  *)
(***************************************************************************)
productsCacheKey == <<"https://cache.local", "${CACHE_VERSION}", "grocy", "products">>

storesCacheKey == <<"https://cache.local", "${CACHE_VERSION}", "grocy", "stores">>

InlineLists ==
    /\ route = "shopping_list (inline)"
    /\ pc = "start"
    /\ \E o \in Outcomes :
        LET call  == Call("GET /api/objects/shopping_lists", 0, o)
            lists == backend.shopping_lists
            hasId(l) == numberToString(l.id) = body.list_id
            chosen(l) == /\ pc' = "items" /\ response' = response
                         /\ local' = [selectedList |-> l, items |-> <<>>, productIds |-> <<>>,
                                      products |-> <<>>, stores |-> <<>>, k |-> 1,
                                      lastPurchaseMap |-> [id \in {} |-> Null]]
        IN  /\ calls' = Append(calls, call)
            /\ faultsLeft' = Spend(<<call>>)
            /\ CASE o = "throw" -> Return(Uncaught) /\ local' = local
                 [] o = "notok" ->
                      Return(text("Failed to fetch shopping lists", 502)) /\ local' = local
                 [] OTHER ->
                      IF body.list_id # <<>>
                      THEN IF find(lists, hasId) = Null
                           THEN Return(text("Invalid shopping list ID", 400)) /\ local' = local
                           ELSE chosen(find(lists, hasId))
                      ELSE IF Len(lists) = 1
                      THEN chosen(lists[1])
                      ELSE IF Len(lists) > 1
                      THEN /\ Return(json([error |-> "multiple_lists", lists |-> lists], 200))
                           /\ local' = local
                      ELSE /\ Return(json([list |-> Null, items |-> <<>>], 200))
                           /\ local' = local
    /\ UNCHANGED <<now, other, first, route, body, backend, cache>>

InlineItems ==
    /\ route = "shopping_list (inline)"
    /\ pc = "items"
    /\ \E o \in Outcomes :
        LET call  == Call("GET /api/objects/shopping_list", 0, o)
            items == slice(backend.shopping_list, MAX_LIST_ITEMS)
        IN  /\ calls' = Append(calls, call)
            /\ faultsLeft' = Spend(<<call>>)
            /\ CASE o = "throw" -> Return(Uncaught) /\ local' = local
                 [] o = "notok" ->
                      /\ Return(text("Failed to fetch shopping list items", 502))
                      /\ local' = local
                 [] OTHER ->
                      /\ local' = [local EXCEPT !.items = items,
                                                !.productIds = productIds(items)]
                      /\ pc' = "products" /\ response' = response
    /\ UNCHANGED <<now, other, first, route, body, backend, cache>>

\* cache.match(key); on a miss fetch, return 502 unless resp.ok, and
\* cache.put(key, ...) with max-age=21600: the steps of cacheGetJson, inline
InlineProducts ==
    /\ route = "shopping_list (inline)"
    /\ pc = "products"
    /\ \E o \in Outcomes :
        LET r == cacheGetJson(cache, productsCacheKey,
                     [kind |-> "GET /api/objects/products", outcome |-> o,
                      payload |-> backend.products], 21600)
        IN  /\ cache' = r.cache
            /\ calls' = calls \o r.calls
            /\ faultsLeft' = Spend(r.calls)
            /\ IF r.threw
               THEN Return(Uncaught) /\ local' = local
               ELSE IF r.data = Null
               THEN Return(text("Failed to fetch products", 502)) /\ local' = local
               ELSE /\ local' = [local EXCEPT !.products = r.data.json]
                    /\ pc' = "stores" /\ response' = response
    /\ UNCHANGED <<now, other, first, route, body, backend>>

InlineStores ==
    /\ route = "shopping_list (inline)"
    /\ pc = "stores"
    /\ \E o \in Outcomes :
        LET r == cacheGetJson(cache, storesCacheKey,
                     [kind |-> "GET /api/objects/shopping_locations", outcome |-> o,
                      payload |-> backend.shopping_locations], 21600)
        IN  /\ cache' = r.cache
            /\ calls' = calls \o r.calls
            /\ faultsLeft' = Spend(r.calls)
            /\ IF r.threw
               THEN Return(Uncaught) /\ local' = local
               ELSE IF r.data = Null
               THEN Return(text("Failed to fetch stores", 502)) /\ local' = local
               ELSE /\ local' = [local EXCEPT !.stores = r.data.json]
                    /\ pc' = "details" /\ response' = response
    /\ UNCHANGED <<now, other, first, route, body, backend>>

\* note: i.note (the later worker has i.note ?? null)
inlineItem(i, products, stores, lastPurchaseMap) ==
    LET item == enrichedItem(i, products, stores, lastPurchaseMap)
    IN  IF i.note = Undefined
        THEN [f \in DOMAIN item \ {"note"} |-> item[f]]
        ELSE item

InlineDetails ==
    /\ route = "shopping_list (inline)"
    /\ pc = "details"
    /\ IF local.k > Len(local.productIds)
       THEN /\ Return(json([list  |-> local.selectedList,
                            items |-> [n \in 1..Len(local.items) |->
                                inlineItem(local.items[n], local.products, local.stores,
                                           local.lastPurchaseMap)]], 200))
            /\ UNCHANGED <<cache, calls, local, faultsLeft>>
       ELSE \E o \in Outcomes :
            LET productId == local.productIds[local.k]
                r == cacheGetJson(cache, stockProductKey(productId),
                         [kind |-> "GET /api/stock/products/{id}", outcome |-> o,
                          payload |-> backend.details[productId]], 3600)
                logged == [n \in 1..Len(r.calls) |-> [r.calls[n] EXCEPT !.line = productId]]
            IN  /\ cache' = r.cache
                /\ calls' = calls \o logged
                /\ faultsLeft' = Spend(r.calls)
                /\ IF r.threw
                   THEN Return(Uncaught) /\ local' = local
                   ELSE /\ pc' = pc /\ response' = response
                        /\ local' = [local EXCEPT
                              !.k = @ + 1,
                              !.lastPurchaseMap =
                                  IF r.data = Null
                                  THEN @
                                  ELSE [id \in DOMAIN @ \cup {productId} |->
                                           IF id = productId
                                           THEN lastPurchase(r.data.json)
                                           ELSE @[id]]]
    /\ UNCHANGED <<now, other, first, route, body, backend>>

InlineCaches(b) ==
    {[k \in ViewCacheKeys \cup {productsCacheKey, storesCacheKey} |->
        IF k \in ViewCacheKeys THEN c[k] ELSE Null] : c \in ViewCaches(b)}

InitInline ==
    /\ route = "shopping_list (inline)"
    /\ pc = "start"
    /\ body \in ListGetQueries
    /\ backend \in ListGetBackends
    /\ cache \in InlineCaches(backend)
    /\ calls = <<>>
    /\ local = Idle
    /\ response = Null
    /\ faultsLeft = MaxFaults
    /\ Alone

NextInline == InlineLists \/ InlineItems \/ InlineProducts \/ InlineStores \/ InlineDetails

SpecInline == InitInline /\ [][NextInline]_vars

\* C15: every cache key a handler reads, writes or deletes has the cache
\* version as its first path segment, and the product list is only ever
\* kept under the key that product creation invalidates.
C15_KeysVersioned ==
    \A k \in DOMAIN cache :
        cache[k] # Null =>
            /\ k[2] = CACHE_VERSION
            /\ (Len(k) = 4 /\ k[4] = "products") => k = ProductsKey

(***************************************************************************)
(* A request served twice against the same backend state: first with an    *)
(* empty cache, then again, the backend being what it was, with the cache  *)
(* the first serving has filled or with every entry filled from the        *)
(* backend.  The backend answers every call.                               *)
(***************************************************************************)
InitTwice(r, inputs, backends, keys) ==
    /\ route = r
    /\ pc = "start"
    /\ body \in inputs
    /\ backend \in backends
    /\ cache = [k \in keys |-> Null]
    /\ calls = <<>>
    /\ local = Idle
    /\ response = Null
    /\ faultsLeft = 0
    /\ now = 0
    /\ other = Null
    /\ first = [backend |-> backend, served |-> FALSE]

InitAdvisory ==
    \/ InitTwice("shopping_list/add", ListAddBodies, Backends(ShoppingLists), CacheKeys)
    \/ InitTwice("stock/add", StockAddBodies, Backends({<<>>}), CacheKeys)
    \/ InitTwice("stock/add/bulk", BulkBodies, Backends({<<>>}), CacheKeys)
    \/ InitTwice("products/create", CreateBodies, CreateBackends, CacheKeys)
    \/ InitTwice("shopping_list", ListGetQueries, ListGetBackends, ViewCacheKeys)
    \/ InitTwice("stock", {Idle}, StockGetBackends, ViewCacheKeys)
    \/ InitTwice("products/search", SearchQueries, SearchBackends, ViewCacheKeys)

\* every entry filled from the backend's collections
FilledFrom(b, keys) ==
    IF keys = CacheKeys THEN WarmCache(b)
    ELSE CHOOSE c \in ViewCaches(b) : c[ProductsKey] # Null

Again ==
    /\ pc = "done"
    /\ ~first.served
    /\ first' = [backend |-> first.backend, served |-> TRUE,
                 response |-> response, calls |-> calls]
    /\ backend' = first.backend
    /\ cache' \in {cache, FilledFrom(first.backend, DOMAIN cache)}
    /\ pc' = "start"
    /\ calls' = <<>>
    /\ local' = Idle
    /\ response' = Null
    /\ UNCHANGED <<now, other, route, body, faultsLeft>>

NextAdvisory == Next \/ Again

SpecAdvisory == InitAdvisory /\ [][NextAdvisory]_vars

\* the calls of a log that are not the fetch of a cached lookup
NotLookups(log) ==
    LET kept(c) == \A k \in DOMAIN cache : c.kind # EndpointOf(k)
    IN  SelectSeq(log, kept)

Lookups(log) == Len(log) - Len(NotLookups(log))

\* C16: the cache is advisory: a request answered with an empty cache and
\* the same request answered, against the same backend state, with a cache
\* filled from that state get the same response; the two servings differ
\* only in the backend reads the cache saves.
C16_CacheAdvisory ==
    (Done /\ first # Null /\ first.served) =>
        /\ response = first.response
        /\ NotLookups(calls) = NotLookups(first.calls)
        /\ Lookups(calls) <= Lookups(first.calls)

C16_Witness ==
    /\ route = "shopping_list"
    /\ Completed
    /\ first # Null /\ first.served
    /\ Lookups(first.calls) = 4
    /\ Lookups(calls) = 0
    /\ Len(response.body.items) > 0
    /\ response = first.response

\* the detail fetch of product p was made and did not bring details
FailedDetail(p) ==
    \E n \in 1..Len(calls) :
        /\ calls[n].kind = "GET /api/stock/products/{id}"
        /\ calls[n].line = p
        /\ calls[n].outcome # "ok"

References(i, p) == PropertyKey(i.product_id) = numberToString(p)

\* a row whose pricing fields and last store are null
Degraded(row) ==
    /\ \A f \in {"last_price_per_price_unit", "price_unit", "price_qu_id",
                 "purchase_to_stock_factor", "price_to_stock_factor"} :
           f \in DOMAIN row.pricing /\ row.pricing[f] = Null
    /\ row.last_store = Null

\* the row of item i when the detail fetch of every product asked for
\* brings the backend's details
WithDetails(i) ==
    LET asked == {local.productIds[n] : n \in 1..Len(local.productIds)}
    IN  enrichedItem(i, backend.products, backend.shopping_locations,
                     [id \in asked |-> lastPurchase(backend.details[id])])

\* C17: in the shopping-list view a failed detail fetch for product p makes
\* the pricing fields and last_store of every row referencing p null, leaves
\* every other row as it would be, and never fails the whole response.
C17_DetailFailureDegrades ==
    (route = "shopping_list" /\ Done /\ \E p \in ProductIds : FailedDetail(p)) =>
        /\ Completed
        /\ \A n \in 1..Len(response.body.items) :
              LET i == slice(backend.shopping_list, MAX_LIST_ITEMS)[n]
              IN  IF \E p \in ProductIds : FailedDetail(p) /\ References(i, p)
                  THEN Degraded(response.body.items[n])
                  ELSE response.body.items[n] = WithDetails(i)

(***************************************************************************)
(* The views up to and beyond their caps: the rows of the backend repeat a *)
(* pattern of one or two row shapes, the product names a pattern of one or *)
(* two names, and at most one backend call fails.                          *)
(***************************************************************************)
RowPatterns == SeqsUpTo(RowShapes, 2) \ {<<>>}

NamePatterns == SeqsUpTo({<<"a">>, <<"a", "b">>, <<"b">>}, 2) \ {<<>>}

CapStockBackends ==
    {ViewBackend(c, <<>>, <<>>, StockRows(Cycle(p, n)), CHOOSE d \in DetailSets : TRUE) :
        c \in ViewCatalogs, p \in RowPatterns, n \in 0..MaxStockLen}

CapListBackends ==
    {ViewBackend(c, Catalog(<<<<"a">>>>), ListItems(Cycle(p, n)), <<>>, d) :
        c \in ViewCatalogs, p \in RowPatterns, n \in 0..MaxListLen, d \in DetailSets}

CapSearchBackends ==
    {ViewBackend(Catalog(Cycle(p, n)), <<>>, <<>>, <<>>, CHOOSE d \in DetailSets : TRUE) :
        p \in NamePatterns, n \in 0..MaxMatching}

CapSearchQueries == [q : {<<"a">>, <<"b">>}, limit : LimitParams]

InitCap(r, queries, backends) ==
    /\ route = r
    /\ pc = "start"
    /\ body \in queries
    /\ backend \in backends
    /\ cache \in ViewCaches(backend)
    /\ calls = <<>>
    /\ local = Idle
    /\ response = Null
    /\ faultsLeft \in {0, 1}
    /\ Alone

InitViewCap ==
    \/ InitCap("shopping_list", [list_id : {<<>>}], CapListBackends)
    \/ InitCap("stock", {Idle}, CapStockBackends)
    \/ InitCap("products/search", CapSearchQueries, CapSearchBackends)

SpecViewCap == InitViewCap /\ [][NextViews]_vars

\* C18: for a stock snapshot of n rows the stock view answers exactly
\* min(n, 25) rows, the first ones in backend order, one per retained row,
\* with no truncation flag.
C18_StockRowsCapped ==
    (route = "stock" /\ Completed) =>
        /\ Len(response.body) = Min(Len(backend.stock), MAX_STOCK_ROWS)
        /\ \A k \in 1..Len(response.body) :
              /\ response.body[k].stock_id = backend.stock[k].id
              /\ DOMAIN response.body[k] \subseteq
                    {"stock_id", "product_id", "product_name", "amount", "best_before_date"}

\* the product id of a backend row is a key of productMap
InProductMap(row) ==
    \E n \in 1..Len(backend.products) :
        PropertyKey(row.product_id) = numberToString(backend.products[n].id)

\* C19: for a selected shopping list with n backend items the list view
\* answers exactly min(n, 50) items, item k built from backend item k, and
\* an item whose product id is not in the product map is named "Unknown".
C19_ListItemsCapped ==
    (route = "shopping_list" /\ Completed /\ response.body.list # Null) =>
        /\ Len(response.body.items) = Min(Len(backend.shopping_list), MAX_LIST_ITEMS)
        /\ \A k \in 1..Len(response.body.items) :
              LET item == response.body.items[k]
                  row  == backend.shopping_list[k]
              IN  /\ item.amount = row.amount
                  /\ item.pricing.amount = row.amount
                  /\ item.note = nullish(row.note, Null)
                  /\ row.product_id # Undefined => item.product_id = row.product_id
                  /\ ~InProductMap(row) => item.product_name = Str(Unknown)

C19_Witness ==
    /\ route = "shopping_list"
    /\ Completed
    /\ response.body.list # Null
    /\ Len(backend.shopping_list) = MAX_LIST_ITEMS + 2
    /\ Len(response.body.items) = MAX_LIST_ITEMS
    /\ \E k \in 1..MAX_LIST_ITEMS :
          /\ ~InProductMap(backend.shopping_list[k])
          /\ response.body.items[k].product_name = Str(Unknown)
    /\ \E k \in 1..MAX_LIST_ITEMS : InProductMap(backend.shopping_list[k])

\* C20: whatever the limit parameter is (absent, zero, negative, not a
\* number, larger than 10), the search answers at most 10 matches, in
\* descending order of score, equal scores in backend order.
C20_AtMostTenRanked ==
    (route = "products/search" /\ Completed) =>
        LET matches == response.body.matches
        IN  /\ Len(matches) <= MAX_LIMIT
            /\ \A i, j \in 1..Len(matches) :
                  i < j =>
                     /\ matches[i].confidence.num >= matches[j].confidence.num
                     /\ matches[i].confidence.num = matches[j].confidence.num =>
                            matches[i].id < matches[j].id

(***************************************************************************)
(* The front of fetch(req, env): the bearer gate, the method allow-list,   *)
(* the configuration checks and the choice of the handler by path and      *)
(* method.  While the request is at the gate, local holds what the gate    *)
(* reads: the Authorization header (Null when absent), the method, the     *)
(* path (its segments) and which settings of env are set.                  *)
(***************************************************************************)
OPENAI_BEARER_TOKEN == "token"

\* `Bearer ${env.OPENAI_BEARER_TOKEN}`
bearer == Str(<<"Bearer", " ", OPENAI_BEARER_TOKEN>>)

ALLOWED_METHODS == {"GET", "POST", "HEAD"}

Enriched == <<"api", "enriched">>

\* url.pathname === ... && req.method === ..., in the order of the code
Handlers ==
    <<[pathname |-> Enriched \o <<"shopping_list", "add">>, method |-> "POST",
       route |-> "shopping_list/add"],
      [pathname |-> Enriched \o <<"shopping_list">>, method |-> "GET",
       route |-> "shopping_list"],
      [pathname |-> Enriched \o <<"stock">>, method |-> "GET", route |-> "stock"],
      [pathname |-> Enriched \o <<"products", "search">>, method |-> "GET",
       route |-> "products/search"],
      [pathname |-> Enriched \o <<"products", "create">>, method |-> "POST",
       route |-> "products/create"],
      [pathname |-> Enriched \o <<"stock", "add">>, method |-> "POST",
       route |-> "stock/add"],
      [pathname |-> Enriched \o <<"stock", "add", "bulk">>, method |-> "POST",
       route |-> "stock/add/bulk"]>>

\* the handler a request is for; the pass-through when it is for none
handlerOf(pathname, method) ==
    LET serves(h) == h.pathname = pathname /\ h.method = method
    IN  IF find(Handlers, serves) = Null THEN "pass-through"
        ELSE find(Handlers, serves).route

\* mutant: the token is accepted without the Bearer scheme
Gate_BareToken ==
    /\ route = "fetch"
    /\ pc = "gate"
    /\ IF local.authorization \notin {bearer, Str(<<OPENAI_BEARER_TOKEN>>)}
       THEN Return(text("Unauthorized", 401)) /\ UNCHANGED <<route, local>>
       ELSE IF local.method \notin ALLOWED_METHODS
       THEN Return(text("Method not allowed", 405)) /\ UNCHANGED <<route, local>>
       ELSE /\ route' = handlerOf(local.pathname, local.method)
            /\ pc' = "start"
            /\ response' = response
            /\ local' = IF handlerOf(local.pathname, local.method) = "pass-through"
                        THEN [pathname |-> local.pathname, method |-> local.method,
                              aborted |-> FALSE, resp |-> Null]
                        ELSE Idle
    /\ UNCHANGED <<now, other, first, body, backend, cache, calls, faultsLeft>>

Gate ==
    /\ route = "fetch"
    /\ pc = "gate"
    /\ IF local.authorization # bearer
       THEN Return(text("Unauthorized", 401)) /\ UNCHANGED <<route, local>>
       ELSE IF local.method \notin ALLOWED_METHODS
       THEN Return(text("Method not allowed", 405)) /\ UNCHANGED <<route, local>>
       ELSE IF ~local.env.UPSTREAM_BASE
       THEN /\ Return(text("Server misconfigured (missing UPSTREAM_BASE)", 500))
            /\ UNCHANGED <<route, local>>
       ELSE IF ~local.env.GROCY_API_KEY
       THEN /\ Return(text("Server misconfigured (missing GROCY_API_KEY)", 500))
            /\ UNCHANGED <<route, local>>
       ELSE IF ~local.env.CF_ACCESS_CLIENT_ID \/ ~local.env.CF_ACCESS_CLIENT_SECRET
       THEN /\ Return(text("Server misconfigured (missing CF Access credentials)", 500))
            /\ UNCHANGED <<route, local>>
       ELSE /\ route' = handlerOf(local.pathname, local.method)
            /\ pc' = "start"
            /\ response' = response
            /\ local' = IF handlerOf(local.pathname, local.method) = "pass-through"
                        THEN [pathname |-> local.pathname, method |-> local.method,
                              aborted |-> FALSE, resp |-> Null]
                        ELSE Idle
    /\ UNCHANGED <<now, other, first, body, backend, cache, calls, faultsLeft>>

(***************************************************************************)
(* The pass-through.  The backend's response is a status and a content     *)
(* type (the media types the header names; none when the header is         *)
(* absent); the fetch follows no redirect.  The timer aborts the fetch     *)
(* that has not been answered after TIMEOUT_MS.                            *)
(***************************************************************************)
TIMEOUT_MS == 8000

UpstreamStatuses == {200, 301, 302, 307, 404, 500}

ContentTypes == {<<>>, <<"application/json">>, <<"text/html", "charset=utf-8">>}

UpstreamResponses == [status : UpstreamStatuses, contentType : ContentTypes]

\* ct.includes(type)
ctIncludes(ct, type) == \E n \in 1..Len(ct) : ct[n] = type

\* resp.status === 302 || (ct.includes("text/html") && !ct.includes("application/json"))
authenticationFailed(resp) ==
    \/ resp.status = 302
    \/ ctIncludes(resp.contentType, "text/html")
          /\ ~ctIncludes(resp.contentType, "application/json")

\* return resp
forwarded(resp) == [type |-> "upstream", status |-> resp.status, body |-> resp]

\* url.pathname.startsWith("/api/")
underApi(pathname) == Len(pathname) >= 2 /\ pathname[1] = "api"

PassStart ==
    /\ route = "pass-through"
    /\ pc = "start"
    /\ IF ~underApi(local.pathname)
       THEN Return(text("Not found", 404))
       ELSE pc' = "fetch" /\ response' = response
    /\ UNCHANGED <<now, other, first, route, body, backend, cache, calls, local, faultsLeft>>

\* the backend answers before the timer fires
PassAnswer ==
    /\ route = "pass-through"
    /\ pc = "fetch"
    /\ \E resp \in UpstreamResponses :
        /\ calls' = Append(calls, Call("pass-through", 0, "answered"))
        /\ local' = [local EXCEPT !.resp = resp]
        /\ IF authenticationFailed(resp)
           THEN Return(text("Access Authentication failed", 502))
           ELSE Return(forwarded(resp))
    /\ UNCHANGED <<now, other, first, route, body, backend, cache, faultsLeft>>

\* the fetch is rejected (network error) before the timer fires
PassReject ==
    /\ route = "pass-through"
    /\ pc = "fetch"
    /\ faultsLeft > 0
    /\ calls' = Append(calls, Call("pass-through", 0, "throw"))
    /\ faultsLeft' = faultsLeft - 1
    /\ Return(Uncaught)
    /\ UNCHANGED <<now, other, first, route, body, backend, cache, local>>

\* the timer fires first: controller.abort() rejects the fetch, and the
\* try has a finally but no catch
PassTimeout ==
    /\ route = "pass-through"
    /\ pc = "fetch"
    /\ calls' = Append(calls, Call("pass-through", 0, "aborted"))
    /\ local' = [local EXCEPT !.aborted = TRUE]
    /\ Return(Uncaught)
    /\ UNCHANGED <<now, other, first, route, body, backend, cache, faultsLeft>>

NextPass == PassStart \/ PassAnswer \/ PassReject \/ PassTimeout

(***************************************************************************)
(* Requests at the gate.  The requests differ in their Authorization       *)
(* header, their method and their path; one in a few meets a worker that   *)
(* lacks a setting.  At most one backend call fails.                       *)
(***************************************************************************)
Authorizations ==
    {Null, bearer,
     Str(<<"Bearer", " ", "other">>),
     Str(<<OPENAI_BEARER_TOKEN>>),
     Str(<<"bearer", " ", OPENAI_BEARER_TOKEN>>),
     Str(<<"Bearer", " ", OPENAI_BEARER_TOKEN, " ">>)}

Methods == {"GET", "POST", "HEAD", "PUT", "DELETE", "OPTIONS"}

Configured ==
    [UPSTREAM_BASE |-> TRUE, GROCY_API_KEY |-> TRUE,
     CF_ACCESS_CLIENT_ID |-> TRUE, CF_ACCESS_CLIENT_SECRET |-> TRUE]

Envs ==
    {Configured} \cup {[Configured EXCEPT ![s] = FALSE] : s \in DOMAIN Configured}

Heads(pathname) ==
    {[authorization |-> a, method |-> m, pathname |-> pathname, env |-> Configured] :
        a \in Authorizations, m \in Methods}
    \cup {[authorization |-> bearer, method |-> m, pathname |-> pathname, env |-> e] :
            m \in {"GET", "POST"}, e \in Envs}

FrontWriterBackend ==
    CHOOSE b \in CreateBackends : Len(b.products) = 2 /\ Len(b.locations) = 2

FrontViewBackend ==
    CHOOSE b \in ListGetBackends :
        Len(b.products) = 2 /\ Len(b.shopping_lists) = 1 /\ Len(b.shopping_list) = 2

InitFront(pathname, inputs, backends) ==
    /\ route = "fetch"
    /\ pc = "gate"
    /\ body \in inputs
    /\ backend \in backends
    /\ cache \in IF "details" \in DOMAIN backend THEN ViewCaches(backend) ELSE Caches(backend)
    /\ calls = <<>>
    /\ local \in Heads(pathname)
    /\ response = Null
    /\ faultsLeft \in {0, 1}
    /\ Alone

InitGate ==
    \/ InitFront(Handlers[1].pathname,
                 {b \in ListAddBodies : b = Null \/ b.product = <<"a">>},
                 {b \in Backends(ShoppingLists) :
                     Len(b.products) = 2 /\ Len(b.shopping_lists) = 1})
    \/ InitFront(Handlers[2].pathname, [list_id : {<<>>}], {FrontViewBackend})
    \/ InitFront(Handlers[3].pathname, {Idle},
                 {b \in StockGetBackends : Len(b.products) = 1 /\ Len(b.stock) = 1})
    \/ InitFront(Handlers[4].pathname, [q : {<<"a">>}, limit : {<<>>}], SearchBackends)
    \/ InitFront(Handlers[5].pathname,
                 {b \in CreateBodies :
                     b = Null \/ (b.name = <<"b">> /\ b.default_location = <<"b">>)},
                 {FrontWriterBackend})
    \/ InitFront(Handlers[6].pathname,
                 {b \in StockAddBodies : b = Null \/ b.product = <<"a">>},
                 {FrontWriterBackend})
    \/ InitFront(Handlers[7].pathname,
                 {b \in BulkBodies :
                     b = Null \/ (b.items # Undefined /\ Len(b.items.value) = 2)},
                 {FrontWriterBackend})
    \/ InitFront(<<"api", "objects", "products">>, {Idle}, {FrontWriterBackend})
    \/ InitFront(<<"health">>, {Idle}, {FrontWriterBackend})

NextGate == Gate \/ NextPass \/ Next

SpecGate == InitGate /\ [][NextGate]_vars

\* the backend's answer is a redirect or names an HTML content type
RedirectOrHtml(resp) ==
    resp.status \in 300..399 \/ ctIncludes(resp.contentType, "text/html")

\* C21: on the pass-through path a backend response that is a redirect (any
\* 3xx status) or has an HTML content type is answered with the fixed 502
\* gateway error, never with the backend's response.
C21_RedirectOrHtmlBlocked ==
    (route = "pass-through" /\ Done /\ local.resp # Null /\ RedirectOrHtml(local.resp)) =>
        response = text("Access Authentication failed", 502)

\* C22: on the pass-through path, when the timeout fires before the backend
\* has answered, the outbound call is cancelled and the request completes
\* with a gateway-style error response.
C22_TimeoutGatewayError ==
    (route = "pass-through" /\ pc # "gate" /\ local.aborted) =>
        /\ Done
        /\ calls[Len(calls)].outcome = "aborted"
        /\ response.type = "text"
        /\ response.status \in {502, 504}

\* C23: every error outcome of an enriched handler reaches the caller as
\* one JSON object with a machine-readable error code, never as plain text
\* or as no response at all.
C23_ErrorsAreJson ==
    (Done /\ response.status >= 400) =>
        /\ response.type = "json"
        /\ "error" \in DOMAIN response.body

PostRoutes == {"shopping_list/add", "products/create", "stock/add", "stock/add/bulk"}

\* the body is malformed JSON or lacks the field the route requires
InvalidInput ==
    CASE body = Null -> TRUE
      [] route \in {"shopping_list/add", "stock/add"} ->
             body.product = <<>> \/ typeof(body.amount) # "number"
      [] route = "products/create" -> body.name = <<>>
      [] route = "stock/add/bulk"  -> ~isArray(body.items) \/ Len(body.items.value) = 0
      [] OTHER -> FALSE

\* a line of a batch without product or without a numeric amount
InvalidLine(item) ==
    item = Null \/ item.product = <<>> \/ typeof(item.amount) # "number"

\* C24: a POST to one of the four writing handlers whose body is malformed
\* or lacks a required field is rejected with an error before any backend
\* call and any cache access; in a batch, a line without product or without
\* a numeric amount causes no backend call for that line.
C24_RejectedBeforeAnyCall ==
    [][/\ (route \in PostRoutes /\ pc = "start" /\ InvalidInput) =>
             /\ pc' = "done"
             /\ response'.type = "json" /\ response'.status = 400
             /\ response'.body \in {[error |-> "invalid_json"], [error |-> "invalid_request"]}
             /\ calls' = <<>>
             /\ cache' = cache
       /\ (route = "stock/add/bulk" /\ body # Null /\ isArray(body.items)) =>
             \A k \in 1..Len(body.items.value) :
                 InvalidLine(body.items.value[k]) =>
                     \A n \in 1..Len(calls') : calls'[n].line # k]_vars

C24_Witness ==
    /\ route = "shopping_list/add"
    /\ Done
    /\ body # Null /\ body.product # <<>> /\ body.amount = Undefined
    /\ response = jsonError(400, [error |-> "invalid_request"])
    /\ calls = <<>>
    /\ cache[ProductsKey] # Null

(***************************************************************************)
(* The writing handlers with batches of every length up to and beyond the  *)
(* cap.                                                                    *)
(***************************************************************************)
InitWrites ==
    \/ InitBulkCap
    \/ InitRequest("shopping_list/add",
                   {b \in ListAddBodies : b # Null /\ b.product = <<"a">>},
                   {b \in Backends(ShoppingLists) : Len(b.products) = 2})
    \/ InitRequest("stock/add",
                   {b \in StockAddBodies : b # Null /\ b.product = <<"a">>},
                   {FrontWriterBackend})
    \/ InitRequest("products/create",
                   {b \in CreateBodies :
                       b # Null /\ b.name = <<"b">> /\ b.default_location = <<"b">>
                                /\ \A r \in DOMAIN b.quantity_units :
                                       b.quantity_units[r] = b.quantity_units.stock},
                   {FrontWriterBackend})

NextWrites == NextListAdd \/ NextStockAdd \/ NextBulk \/ NextCreate

SpecWrites == InitWrites /\ [][NextWrites]_vars

WriteKinds ==
    {"POST /api/stock/shoppinglist/add-product", "POST /api/objects/products",
     "POST /api/files/productpictures/{id}", "POST /api/objects/products/{id}/add",
     "POST /api/objects/product_prices"}

StockAddWrites ==
    {n \in 1..Len(calls) : calls[n].kind = "POST /api/objects/products/{id}/add"}

\* C25: no write is ever repeated: within one request each backend write is
\* issued at most once (once per line in a batch), whatever its outcome, and
\* a bulk request issues at most one stock-add write per retained line,
\* hence at most 25.
C25_NoWriteRepeated ==
    /\ \A i, j \in 1..Len(calls) :
          (i # j /\ calls[i].kind \in WriteKinds /\ calls[i].kind = calls[j].kind) =>
              calls[i].line # calls[j].line
    /\ (route = "stock/add/bulk" /\ body # Null /\ isArray(body.items)) =>
          /\ Cardinality(StockAddWrites) <= MAX_ITEMS
          /\ \A n \in StockAddWrites : calls[n].line \in 1..Min(Len(body.items.value), MAX_ITEMS)

C25_Witness ==
    /\ route = "stock/add/bulk"
    /\ Completed
    /\ Len(body.items.value) = MAX_ITEMS + 2
    /\ Cardinality(StockAddWrites) = MAX_ITEMS
    /\ \E n \in StockAddWrites : calls[n].outcome = "notok"
    /\ \E n \in 1..Len(calls) : calls[n].kind = "POST /api/objects/product_prices"

\* the call log has a call of this kind with this outcome
Made(kind, outcomes) ==
    \E n \in 1..Len(calls) : calls[n].kind = kind /\ calls[n].outcome \in outcomes

\* the image step was taken and failed: the fetch of the image or the upload
ImageStepFailed ==
    \/ Made("GET image_url", {"notok", "throw", "too_large", "not_image"})
    \/ Made("POST /api/files/productpictures/{id}", {"notok", "throw"})

WantedUnit(role) ==
    IF body.quantity_units[role] # <<>> THEN body.quantity_units[role]
    ELSE DEFAULT_UNITS[role]

\* the backend has a unit of that name, names compared normalized
Resolvable(role) ==
    \E n \in 1..Len(backend.quantity_units) :
        normalize(backend.quantity_units[n].name) = normalize(WantedUnit(role))

\* C27: in product creation each of the four unit roles is resolved on its
\* own (the caller's value, else the role's default) by exact match of the
\* normalized names, and a rejection names the first unresolvable role in
\* the order stock, purchase, consume, price.
C27_FirstMissingRole ==
    (route = "products/create" /\ Done /\ local # Idle /\ local.resolvedUnits # Null) =>
        IF \E i \in 1..4 : ~Resolvable(UnitRoles[i])
        THEN \E i \in 1..4 :
                /\ ~Resolvable(UnitRoles[i])
                /\ \A j \in 1..(i - 1) : Resolvable(UnitRoles[j])
                /\ response = jsonError(400, [error |-> "invalid_quantity_unit",
                                              unit  |-> UnitRoles[i]])
        ELSE /\ \A i \in 1..4 :
                  normalize(local.resolvedUnits[UnitRoles[i]].name)
                      = normalize(WantedUnit(UnitRoles[i]))
             /\ ~(response.type = "json" /\ "error" \in DOMAIN response.body
                    /\ response.body.error = "invalid_quantity_unit")
             /\ Completed =>
                  \A i \in 1..4 :
                      normalize(response.body.quantity_units[UnitRoles[i]])
                          = normalize(WantedUnit(UnitRoles[i]))

C27_Witness ==
    /\ route = "products/create"
    /\ Done
    /\ response = jsonError(400, [error |-> "invalid_quantity_unit", unit |-> "purchase"])
    /\ body.quantity_units.stock # <<>>
    /\ Resolvable("stock") /\ Resolvable("consume")
    /\ ~Resolvable("purchase") /\ ~Resolvable("price")

(***************************************************************************)
(* The price write is started and not awaited: fetch(...).catch(() => {}). *)
(* Its promise settles at some later time, during the request or after the *)
(* response, or never; a rejection is swallowed by the catch.              *)
(***************************************************************************)
PriceSettle ==
    /\ route \in {"stock/add", "stock/add/bulk"}
    /\ \E n \in 1..Len(calls), o \in {"ok", "notok", "throw"} :
        /\ calls[n].kind = "POST /api/objects/product_prices"
        /\ calls[n].outcome = "detached"
        /\ calls' = [calls EXCEPT ![n].outcome = o]
    /\ UNCHANGED <<now, other, first, route, pc, body, backend, cache, local, response,
                   faultsLeft>>

InitPrice ==
    \/ InitRequest("stock/add", StockAddBodies, Backends({<<>>}))
    \/ InitRequest("stock/add/bulk", BulkBodies, Backends({<<>>}))

NextPrice == NextStockAdd \/ NextBulk \/ PriceSettle

SpecPrice == InitPrice /\ [][NextPrice]_vars

PriceWrites(log) == {n \in 1..Len(log) : log[n].kind = "POST /api/objects/product_prices"}

\* the stock-add write of this line (0: the single stock-add) succeeded
StockAdded(line) ==
    \E n \in 1..Len(calls) :
        /\ calls[n].kind = "POST /api/objects/products/{id}/add"
        /\ calls[n].line = line
        /\ calls[n].outcome = "ok"

\* C28: in single and bulk stock-add the outcome of the price write never
\* changes the line's result or the response: a line whose stock-add write
\* succeeded is reported as added whatever happens to the price write, and
\* the response does not wait for the price write.
C28_PriceWriteDetached ==
    [][/\ (\E n \in PriceWrites(calls) : calls'[n].outcome # calls[n].outcome) =>
             UNCHANGED <<pc, local, response>>
       /\ \A n \in PriceWrites(calls') \ PriceWrites(calls) :
             /\ calls'[n].outcome = "detached"
             /\ route = "stock/add" => pc' = "done"
             /\ route = "stock/add/bulk" => Len(local'.results) = Len(local.results) + 1
       /\ (route = "stock/add" /\ StockAdded(0)') =>
             (Completed' /\ response'.body.status = "added")
       /\ (route = "stock/add/bulk" /\ local' # Idle) =>
             \A k \in 1..Len(local'.results) :
                 StockAdded(k)' =>
                    /\ local'.results[k].status = "added"
                    /\ Completed' => response'.body.results[k].status = "added"]_vars

C28_Witness ==
    /\ route = "stock/add/bulk"
    /\ Completed
    /\ \E n, m \in PriceWrites(calls) :
          /\ calls[n].outcome = "throw" /\ calls[n].line = 1
          /\ calls[m].outcome = "detached" /\ calls[m].line = 2
    /\ response.body.results[1].status = "added"
    /\ response.body.results[2].status = "added"

\* C29: a request whose Authorization header is not exactly the configured
\* bearer token is answered 401, and one whose method is outside the
\* allow-list is answered 405; in both cases no backend call is made and the
\* cache is neither read nor written.
C29_GateRejects ==
    [][(pc = "gate") =>
          /\ local.authorization # bearer =>
                /\ pc' = "done" /\ response'.status = 401
                /\ calls' = <<>> /\ cache' = cache
          /\ (local.authorization = bearer /\ local.method \notin ALLOWED_METHODS) =>
                /\ pc' = "done" /\ response'.status = 405
                /\ calls' = <<>> /\ cache' = cache]_vars

C29_Witness ==
    /\ route = "fetch"
    /\ Done
    /\ local.authorization = Str(<<"bearer", " ", OPENAI_BEARER_TOKEN>>)
    /\ local.method = "POST"
    /\ local.pathname = Handlers[5].pathname
    /\ response = text("Unauthorized", 401)
    /\ calls = <<>>
    /\ cache[ProductsKey] # Null

\* the candidates that share the score of the resolved product
SharingScore(products, wanted, score) ==
    {n \in 1..Len(products) : scored(products, normalize(wanted))[n].score = score}

\* C30: resolution never selects among several equally good candidates:
\* whenever resolveProductFuzzy returns Resolved, the resolved product is
\* the only candidate with the top score.
C30_NoTieResolved ==
    (route = "resolveProductFuzzy" /\ pc = "done" /\ local.resolved.product # Null) =>
        Cardinality(SharingScore(body.products, body.productName,
                                 local.resolved.product.score)) = 1

(***************************************************************************)
(* The shopping-list view with the detail callbacks of Promise.all running *)
(* concurrently.  productIds.map starts every callback, each runs to its   *)
(* first await (cache.match), and from there the callbacks resume one at a *)
(* time in any order: after the match, after the fetch, after the put.     *)
(* local.at tells where the callback of each product id is suspended.      *)
(***************************************************************************)
IdsOf(ids) == {ids[n] : n \in 1..Len(ids)}

\* mutant: the entry is filed under the product id whose turn it is in the
\* order the callbacks end in
FanOutSettled_ByArrival(l, productId, details) ==
    LET arrived == Cardinality({id \in DOMAIN l.at : l.at[id] = "done"}) + 1
        slot    == l.productIds[arrived]
    IN  [l EXCEPT !.at[productId] = "done",
                  !.lastPurchaseMap =
                      [id \in DOMAIN @ \cup {slot} |->
                          IF id = slot THEN lastPurchase(details) ELSE @[id]]]

\* lastPurchaseMap[productId] = {...}, the last statement of a callback
FanOutSettled(l, productId, details) ==
    [l EXCEPT !.at[productId] = "done",
              !.lastPurchaseMap =
                  [id \in DOMAIN @ \cup {productId} |->
                      IF id = productId THEN lastPurchase(details) ELSE @[id]]]

FanOutStart ==
    /\ route = "shopping_list"
    /\ pc = "details"
    /\ pc' = "fan-out"
    /\ local' = [f \in DOMAIN local \cup {"at"} |->
                    IF f = "at" THEN [id \in IdsOf(local.productIds) |-> "match"]
                    ELSE local[f]]
    /\ UNCHANGED <<now, other, first, route, body, backend, cache, calls, response,
                   faultsLeft>>

\* the callback of one product id resumes: cacheGetJson from the await it
\* is suspended at to the next one, or to the end of the callback
FanOutStep(productId) ==
    /\ route = "shopping_list"
    /\ pc = "fan-out"
    /\ productId \in DOMAIN local.at
    /\ LET key == stockProductKey(productId)
       IN  CASE local.at[productId] = "match" ->
                  /\ IF cacheMatch(cache, key) # Null
                     THEN local' = FanOutSettled(local, productId, cacheMatch(cache, key).text)
                     ELSE local' = [local EXCEPT !.at[productId] = "fetch"]
                  /\ UNCHANGED <<cache, calls, faultsLeft, pc, response>>
             [] local.at[productId] = "fetch" ->
                  \E o \in Outcomes :
                      LET call == Call("GET /api/stock/products/{id}", productId, o)
                      IN  /\ calls' = Append(calls, call)
                          /\ faultsLeft' = Spend(<<call>>)
                          /\ cache' = cache
                          /\ CASE o = "throw" -> Return(Uncaught) /\ local' = local
                               [] o = "notok" ->
                                    /\ local' = [local EXCEPT !.at[productId] = "done"]
                                    /\ UNCHANGED <<pc, response>>
                               [] OTHER ->
                                    /\ local' = [local EXCEPT !.at[productId] = "put"]
                                    /\ UNCHANGED <<pc, response>>
             [] local.at[productId] = "put" ->
                  /\ cache' = [cache EXCEPT
                                  ![key] = stored(backend.details[productId], DETAILS_TTL)]
                  /\ local' = FanOutSettled(local, productId, backend.details[productId])
                  /\ UNCHANGED <<calls, faultsLeft, pc, response>>
             [] OTHER -> FALSE
    /\ UNCHANGED <<now, other, first, route, body, backend>>

\* every callback has ended: Promise.all resolves and the rows are built
FanOutAll ==
    /\ route = "shopping_list"
    /\ pc = "fan-out"
    /\ \A id \in DOMAIN local.at : local.at[id] = "done"
    /\ Return(json([list  |-> local.selectedList,
                    items |-> [n \in 1..Len(local.items) |->
                        enrichedItem(local.items[n], local.products, local.stores,
                                     local.lastPurchaseMap)]], 200))
    /\ UNCHANGED <<now, other, first, route, body, backend, cache, calls, local,
                   faultsLeft>>

\* the caches of a view: empty, warm, and warm but for the details of the
\* products other than the first
FanOutCaches(b) ==
    ViewCaches(b) \cup
    {[k \in ViewCacheKeys |->
        IF k \in CacheKeys THEN WarmCache(b)[k]
        ELSE IF k = cacheKeyUrl("stores") THEN Fresh(b.shopping_locations)
        ELSE IF k = stockProductKey(1) THEN FreshDetails(b.details[1])
        ELSE Null]}

InitFanOut ==
    /\ route = "shopping_list"
    /\ pc = "start"
    /\ body \in [list_id : {<<>>}]
    /\ backend \in {ViewBackend(c, Catalog(<<<<"a">>>>), ListItems(shapes), <<>>, d) :
                       c \in ViewCatalogs, shapes \in SeqsUpTo(RowShapes, MaxLines),
                       d \in DetailSets}
    /\ cache \in FanOutCaches(backend)
    /\ calls = <<>>
    /\ local = Idle
    /\ response = Null
    /\ faultsLeft \in {0, 1}
    /\ Alone

NextFanOut ==
    \/ ListGetLists \/ ListGetItems \/ ListGetProducts \/ ListGetStores
    \/ FanOutStart \/ (\E id \in ProductIds : FanOutStep(id)) \/ FanOutAll

SpecFanOut == InitFanOut /\ [][NextFanOut]_vars

\* the details the callback of a product id obtained: those of the call it
\* made, else those the cache held for it (a callback that makes no call
\* leaves the entry of its key as it was)
DetailCalls(id) ==
    {n \in 1..Len(calls) : calls[n].kind = "GET /api/stock/products/{id}"
                           /\ calls[n].line = id}

ObtainedDetails ==
    LET got == {id \in IdsOf(local.productIds) :
                   \A n \in DetailCalls(id) : calls[n].outcome = "ok"}
    IN  [id \in got |->
            lastPurchase(IF DetailCalls(id) = {} THEN cache[stockProductKey(id)].text
                         ELSE backend.details[id])]

DetailRejected ==
    \E n \in 1..Len(calls) : /\ calls[n].kind = "GET /api/stock/products/{id}"
                             /\ calls[n].outcome = "throw"

\* C31: whatever the order in which the detail callbacks of the
\* shopping-list view resume and end, the response is the one the backend,
\* the cache and the outcome of each product's own detail call determine:
\* the rows are the retained base rows in the base order, row n built from
\* base row n, and the pricing of each row is made from the detail record
\* of the row's own product id (an uncaught exception if a detail call was
\* rejected).
C31_OrderIndependent ==
    (route = "shopping_list" /\ pc = "done" /\ "at" \in DOMAIN local) =>
        /\ local.items = slice(backend.shopping_list, MAX_LIST_ITEMS)
        /\ IF DetailRejected
           THEN response = Uncaught
           ELSE response =
                   json([list  |-> local.selectedList,
                         items |-> [n \in 1..Len(local.items) |->
                             enrichedItem(local.items[n], local.products, local.stores,
                                          ObtainedDetails)]], 200)

\* the detail call of the second product id was answered before the one of
\* the first product id was, and the rows were built from both
C31_Witness ==
    /\ route = "shopping_list" /\ pc = "done" /\ "at" \in DOMAIN local
    /\ response.status = 200
    /\ local.productIds = <<1, 3>>
    /\ Len(calls) > 0
    /\ calls[Len(calls)].line = 1
    /\ \E n \in 1..Len(calls) : calls[n].line = 3 /\ calls[n].outcome = "ok"
    /\ response.body.items[1].pricing # response.body.items[2].pricing

(***************************************************************************)
(* Several callers of cacheGetJson looking up the product list at the same *)
(* time, the key having no entry when they arrive.  Each caller runs the   *)
(* helper from one await to the next; the backend may answer each fetch    *)
(* with a different product list.  local[c] is the state of caller c: the  *)
(* await it is suspended at, the text it fetched, the data it returned.    *)
(***************************************************************************)
MaxCallers == 2

Callers == 1..MaxCallers

\* fetched tells whether the caller holds the text of a successful fetch
Suspended(label, fetched_, text_) ==
    [at |-> label, fetched |-> fetched_, text |-> text_, data |-> Null]

\* mutant: the caller returns what the cache holds under the key
storedJson_Entry(c) == Json(cache[ProductsKey].text)

\* return stored.json(): the caller's own copy of what it fetched
storedJson(c) == Json(local[c].text)

\* caller c resumes: cacheGetJson from the await it is suspended at to the
\* next one, or to its return
cacheGetJsonStep(c) ==
    /\ route = "cacheGetJson"
    /\ CASE local[c].at = "match" ->
              /\ local' = [local EXCEPT ![c] =
                     IF cacheMatch(cache, ProductsKey) # Null
                     THEN [at |-> "done", fetched |-> FALSE, text |-> <<>>,
                           data |-> Json(cacheMatch(cache, ProductsKey).text)]
                     ELSE Suspended("fetch", FALSE, <<>>)]
              /\ UNCHANGED <<cache, calls, faultsLeft>>
         [] local[c].at = "fetch" ->
              \E o \in Outcomes, payload \in ViewCatalogs :
                  LET call == Call("GET /api/objects/products", c, o)
                  IN  /\ calls' = Append(calls, call)
                      /\ faultsLeft' = Spend(<<call>>)
                      /\ cache' = cache
                      /\ local' = [local EXCEPT ![c] =
                             CASE o = "throw" -> Suspended("threw", FALSE, <<>>)
                               [] o = "notok" -> Suspended("done", FALSE, <<>>)
                               [] OTHER       -> Suspended("put", TRUE, payload)]
         [] local[c].at = "put" ->
              /\ cache' = [cache EXCEPT
                              ![ProductsKey] = stored(local[c].text, CACHE_DURATION)]
              /\ local' = [local EXCEPT ![c] = Suspended("json", TRUE, local[c].text)]
              /\ UNCHANGED <<calls, faultsLeft>>
         [] local[c].at = "json" ->
              /\ local' = [local EXCEPT ![c] = [at |-> "done", fetched |-> TRUE,
                                                text |-> local[c].text,
                                                data |-> storedJson(c)]]
              /\ UNCHANGED <<cache, calls, faultsLeft>>
         [] OTHER -> FALSE
    /\ UNCHANGED <<now, other, first, route, pc, body, backend, response>>

InitMiss ==
    /\ route = "cacheGetJson"
    /\ pc = "start"
    /\ body = Idle
    /\ backend = NoBackend
    /\ cache = EmptyCache
    /\ calls = <<>>
    /\ local = [c \in Callers |-> Suspended("match", FALSE, <<>>)]
    /\ response = Null
    /\ faultsLeft \in 0..MaxCallers
    /\ Alone

NextMiss == \E c \in Callers : cacheGetJsonStep(c)

SpecMiss == InitMiss /\ [][NextMiss]_vars

Ended(c) == local[c].at \in {"done", "threw"}

\* the callers whose fetch was answered successfully, and what they fetched
Fetchers == {c \in Callers : local[c].fetched}

\* C32: of the callers that look up the same missing key at the same time,
\* under every interleaving each one whose fetch succeeded returns the
\* payload it fetched itself; once all have ended, the entry of the key is
\* a payload one of them fetched, whole, with the lifetime asked for, and
\* there is no entry if no fetch succeeded.
C32_ConcurrentMisses ==
    route = "cacheGetJson" =>
        /\ \A c \in Fetchers : local[c].at = "done" => local[c].data = Json(local[c].text)
        /\ (\A c \in Callers : Ended(c)) =>
              IF Fetchers = {}
              THEN cache[ProductsKey] = Null
              ELSE \E c \in Fetchers :
                      cache[ProductsKey] = stored(local[c].text, CACHE_DURATION)

\* two callers each made their own fetch of the key, were answered with
\* different product lists, and both have returned
C32_Witness ==
    /\ route = "cacheGetJson"
    /\ \A c \in Callers : local[c].at = "done"
    /\ {1, 2} \subseteq Fetchers
    /\ local[1].text # local[2].text
    /\ local[1].data = Json(local[1].text)
    /\ local[2].data = Json(local[2].text)
    /\ cache[ProductsKey].text = local[1].text
    /\ Cardinality({n \in 1..Len(calls) : calls[n].outcome = "ok"}) >= 2

(***************************************************************************)
(* The order of the steps of a stock-add line.                             *)
(***************************************************************************)
StockRoutes == {"stock/add", "stock/add/bulk"}

\* the request (position 0) or the bulk line at a position
ItemAt(k) == IF k = 0 THEN body ELSE local.safeItems[k]

IsCall(n, kind, line) == n \in 1..Len(calls) /\ calls[n].kind = kind /\ calls[n].line = line

\* C33: for every stock-add line, single or bulk, the detail fetch is
\* issued only for a line of valid shape whose product resolved, the
\* stock-add write only right after the line's detail fetch succeeded, and
\* the price write only right after the line's stock-add write succeeded
\* and only for a numeric price: no step of a line is issued after an
\* earlier step of that line failed.
C33_StepsInOrder ==
    route \in StockRoutes =>
        \A n \in 1..Len(calls) :
            LET c == calls[n]
            IN  /\ c.kind = "GET /api/stock/products/{id}" =>
                      /\ ItemAt(c.line) # Null
                      /\ ItemAt(c.line).product # <<>>
                      /\ typeof(ItemAt(c.line).amount) = "number"
                      /\ ~Unresolved(local.products, ItemAt(c.line).product)
                /\ c.kind = "POST /api/objects/products/{id}/add" =>
                      /\ IsCall(n - 1, "GET /api/stock/products/{id}", c.line)
                      /\ calls[n - 1].outcome = "ok"
                /\ c.kind = "POST /api/objects/product_prices" =>
                      /\ IsCall(n - 1, "POST /api/objects/products/{id}/add", c.line)
                      /\ calls[n - 1].outcome = "ok"
                      /\ typeof(ItemAt(c.line).price) = "number"

\* a batch completed in which the detail fetch of the first line failed and
\* nothing more was issued for it, and the second line went through all
\* its steps, the price write included
C33_Witness ==
    /\ route = "stock/add/bulk" /\ Completed
    /\ Len(local.safeItems) = 2
    /\ \E n \in 1..Len(calls) :
          /\ IsCall(n, "GET /api/stock/products/{id}", 1) /\ calls[n].outcome # "ok"
          /\ IsCall(n + 1, "GET /api/stock/products/{id}", 2)
          /\ IsCall(n + 2, "POST /api/objects/products/{id}/add", 2)
          /\ IsCall(n + 3, "POST /api/objects/product_prices", 2)
    /\ BulkResult(1).error = "product_details_unavailable"
    /\ BulkResult(2).status = "added"

(***************************************************************************)
(* The order of the gates of product creation, over every creation request *)
(* and backend.                                                            *)
(***************************************************************************)
SpecCreate ==
    InitRequest("products/create", CreateBodies, CreateBackends) /\ [][NextCreate]_vars

\* the backend calls of a creation, in the order of the pipeline
CreatePipeline ==
    <<"GET /api/objects/products", "GET /api/objects/locations",
      "GET /api/objects/quantity_units", "GET /api/objects/product_groups",
      "POST /api/objects/products", "GET image_url",
      "POST /api/files/productpictures/{id}">>

StageOf(kind) == CHOOSE s \in 1..Len(CreatePipeline) : CreatePipeline[s] = kind

\* the product list before the creation write appended the new product
ProductsBefore ==
    IF \E n \in 1..Len(calls) : calls[n] = Call("POST /api/objects/products", 0, "ok")
    THEN SubSeq(backend.products, 1, Len(backend.products) - 1)
    ELSE backend.products

\* the verdict of each gate on the request and the backend's collections,
\* whether or not the handler came to that gate: 0 when no gate rejects
FailingGates ==
    {g \in 1..4 :
        CASE g = 1 -> Named(ProductsBefore, body.name)
          [] g = 2 -> ~Named(backend.locations,
                             orDefault(body.default_location, DEFAULT_LOCATION_NAME))
          [] g = 3 -> \E role \in DOMAIN DEFAULT_UNITS :
                         ~Named(backend.quantity_units,
                                orDefault(body.quantity_units[role], DEFAULT_UNITS[role]))
          [] g = 4 -> /\ body.product_group # <<>>
                      /\ ~Named(backend.product_groups, body.product_group)}

EarliestFailing ==
    IF FailingGates = {} THEN 0
    ELSE CHOOSE g \in FailingGates : \A h \in FailingGates : g <= h

GateErrors == <<"product_exists", "invalid_location", "invalid_quantity_unit",
                "invalid_product_group">>

CreationWritten ==
    \E n \in 1..Len(calls) : calls[n] = Call("POST /api/objects/products", 0, "ok")

\* what every step of a creation keeps: the calls are in the order of the
\* pipeline, none follows a call that failed, the answer is the one of the
\* earliest rejecting gate, and the product-list entry is deleted only
\* after a successful creation write
GatesKept ==
    route = "products/create" =>
        /\ \A m, n \in 1..Len(calls') :
              m < n => /\ StageOf(calls'[m].kind) < StageOf(calls'[n].kind)
                       /\ calls'[m].outcome = "ok"
        /\ (pc' = "done" /\ body # Null /\ body.name # <<>>) =>
              IF response'.type = "json" /\ response'.status = 400
              THEN /\ EarliestFailing' # 0
                   /\ response'.body.error = GateErrors[EarliestFailing']
              ELSE IF response'.status = 200
              THEN FailingGates' = {} /\ CreationWritten'
              ELSE /\ calls' # <<>>
                   /\ \A g \in FailingGates' :
                         g >= StageOf(calls'[Len(calls')].kind)
        /\ (cache[ProductsKey] # Null /\ cache'[ProductsKey] = Null) => CreationWritten

SomeCallFailed == \E n \in 1..Len(calls) : calls[n].outcome # "ok"

\* C34 as stated: the creation runs dedupe, location, quantity units,
\* product group, creation write, image upload and cache invalidation in
\* that order and stops at the first of them that fails, the image upload
\* included: after a failed step nothing more is done, the cache keeps its
\* product-list entry and the answer is that step's error.
C34_StopsAtFirstFailure ==
    [][/\ GatesKept
       /\ (route = "products/create" /\ SomeCallFailed) =>
              /\ cache'[ProductsKey] = cache[ProductsKey]
              /\ pc' = "done" => response'.status >= 400
    ]_vars

\* C34 (amended): a product creation issues its backend calls in the order
\* of the pipeline (product list, locations, quantity units, product
\* groups, creation write, image fetch, image upload) and none after a call
\* that failed; a request that a gate rejects is answered with the error of
\* the earliest gate that rejects it, a request whose backend call failed
\* has no rejecting gate before that call, a created product has none at
\* all; the product-list cache entry is deleted only in a request whose
\* creation write succeeded, and it is deleted there whether or not the
\* image step failed.
C34_GatesInOrder ==
    [][/\ GatesKept
       /\ (route = "products/create" /\ pc' = "done" /\ CreationWritten) =>
              cache'[ProductsKey] = Null /\ response'.body.status = "created"
    ]_vars

\* a request whose name exists and whose location and unit do not resolve
\* either was rejected as product_exists, after the product list alone was
\* read
C34_Witness ==
    /\ route = "products/create" /\ Done
    /\ body # Null
    /\ FailingGates = {1, 2, 3}
    /\ response.body.error = "product_exists"
    /\ calls = <<Call("GET /api/objects/products", 0, "ok")>>
    /\ cache[ProductsKey] # Null

(***************************************************************************)
(* The shopping-list view of a list whose items reference many different   *)
(* products: item k references product k, or the items reference each      *)
(* product twice in a row.                                                 *)
(***************************************************************************)
ManyIds == 1..MaxListLen

ManyItems(n, twice) ==
    [k \in 1..n |->
        [product_id |-> Number(IF twice THEN (k + 1) \div 2 ELSE k), amount |-> Number(k),
         note |-> Undefined, qu_id |-> Undefined]]

ManyBackends ==
    {ViewBackend(Catalog(<<<<"a">>>>), Catalog(<<<<"a">>>>), ManyItems(n, twice), <<>>,
                 [id \in ManyIds |-> IF id = 1 THEN Purchased(1) ELSE NeverPurchased]) :
        n \in (MaxListLen - 2)..MaxListLen, twice \in BOOLEAN}

ManyKeys == CacheKeys \cup {cacheKeyUrl("stores")} \cup {stockProductKey(id) : id \in ManyIds}

\* nothing cached, or everything but the details of the products
ManyCaches(b) ==
    {[k \in ManyKeys |-> Null],
     [k \in ManyKeys |->
        IF k \in CacheKeys THEN WarmCache(b)[k]
        ELSE IF k = cacheKeyUrl("stores") THEN Fresh(b.shopping_locations)
        ELSE Null]}

InitMany ==
    /\ route = "shopping_list"
    /\ pc = "start"
    /\ body \in [list_id : {<<>>}]
    /\ backend \in ManyBackends
    /\ cache \in ManyCaches(backend)
    /\ calls = <<>>
    /\ local = Idle
    /\ response = Null
    /\ faultsLeft \in {0, 1}
    /\ Alone

SpecMany == InitMany /\ [][NextListGet]_vars

\* the detail lookups started so far: the callbacks of the product ids
\* before position local.k
LookupsStarted ==
    IF local = Idle \/ pc \in {"start", "items", "products", "stores"} THEN <<>>
    ELSE SubSeq(local.productIds, 1, Min(local.k, Len(local.productIds) + 1) - 1)

Retained == slice(backend.shopping_list, MAX_LIST_ITEMS)

ReferencedIds ==
    {Retained[k].product_id.value :
        k \in {j \in 1..Len(Retained) : typeof(Retained[j].product_id) = "number"}}

DetailCallsMade ==
    {n \in 1..Len(calls) : calls[n].kind = "GET /api/stock/products/{id}"}

\* C35: in one shopping-list request at most one detail lookup is started,
\* and at most one detail fetch issued, for each distinct product id of
\* the retained items, so at most 50 in all, and none for a product id
\* that no retained item references.
C35_OneLookupPerProduct ==
    route = "shopping_list" =>
        /\ \A i, j \in 1..Len(LookupsStarted) :
              LookupsStarted[i] = LookupsStarted[j] => i = j
        /\ \A i \in 1..Len(LookupsStarted) : LookupsStarted[i] \in ReferencedIds
        /\ Len(LookupsStarted) <= MAX_LIST_ITEMS
        /\ \A m, n \in DetailCallsMade : calls[m].line = calls[n].line => m = n
        /\ \A n \in DetailCallsMade : calls[n].line \in ReferencedIds
        /\ Cardinality(DetailCallsMade) <= MAX_LIST_ITEMS

\* a list of more than 50 items, each of another product: 50 detail fetches
\* were issued, one for each product of the first 50 items
C35_Witness ==
    /\ route = "shopping_list" /\ Completed
    /\ Len(backend.shopping_list) > MAX_LIST_ITEMS
    /\ Cardinality(ReferencedIds) = MAX_LIST_ITEMS
    /\ Cardinality(DetailCallsMade) = MAX_LIST_ITEMS
    /\ {calls[n].line : n \in DetailCallsMade} = 1..MAX_LIST_ITEMS

(***************************************************************************)
(* The target list of a shopping-list add, over every request and every    *)
(* number of lists.                                                        *)
(***************************************************************************)
SpecListAdd ==
    InitRequest("shopping_list/add", ListAddBodies, Backends(ShoppingLists))
        /\ [][NextListAdd]_vars

ListsWithId(id) ==
    {k \in 1..Len(backend.shopping_lists) : backend.shopping_lists[k].id = id}

\* one target list is determined: the list with the id the request names,
\* or the only list when it names none
TargetDetermined ==
    IF body.shopping_list_id # 0
    THEN ListsWithId(body.shopping_list_id) # {}
    ELSE Len(backend.shopping_lists) = 1

NoTargetError ==
    IF body.shopping_list_id # 0
    THEN jsonError(400, [error |-> "invalid_shopping_list_id"])
    ELSE IF Len(backend.shopping_lists) > 1
    THEN json([error |-> "multiple_lists", lists |-> backend.shopping_lists], 400)
    ELSE jsonError(400, [error |-> "no_shopping_list_found"])

AddProductWrites ==
    {n \in 1..Len(calls) : calls[n].kind = "POST /api/stock/shoppinglist/add-product"}

\* C36: a shopping-list add issues its add-product write only when one
\* target list was determined, and for that list; a valid request that
\* names no list while there are several is answered multiple_lists with
\* every list, one that names no list while there is none, or names a list
\* that does not exist, is answered with an error, and none of them issues
\* a write.
C36_NoWriteWithoutTarget ==
    (route = "shopping_list/add" /\ body # Null) =>
        /\ AddProductWrites # {} =>
              /\ TargetDetermined
              /\ local.selectedList.id =
                    (IF body.shopping_list_id # 0 THEN body.shopping_list_id
                     ELSE backend.shopping_lists[1].id)
        /\ (Done /\ body.product # <<>> /\ typeof(body.amount) = "number"
                 /\ ~TargetDetermined) =>
              /\ AddProductWrites = {}
              /\ response \in {NoTargetError, text("Failed to fetch shopping lists", 502)}

\* a valid request that names no list, sent while there are two lists, was
\* answered with both lists and nothing was written
C36_Witness ==
    /\ route = "shopping_list/add" /\ Done
    /\ body # Null /\ body.product = <<"a">> /\ body.shopping_list_id = 0
    /\ Len(backend.shopping_lists) = 2
    /\ response.status = 400
    /\ response.body.error = "multiple_lists"
    /\ Len(response.body.lists) = 2
    /\ AddProductWrites = {}

(***************************************************************************)
(* Two product creations in flight at once.  The first one is the handler  *)
(* above; the second one, in other, asks for the default location and      *)
(* units, no product group and no image, and runs the same pipeline one    *)
(* await at a time: dedupe, location, quantity units, creation write,      *)
(* cache invalidation.  Its steps interleave with those of the first.      *)
(***************************************************************************)
Second(label, name, resp) == [at |-> label, name |-> name, response |-> resp]

SecondCreate ==
    /\ other # Null
    /\ "name" \in DOMAIN other
    /\ LET next(label) == other' = Second(label, other.name, Null)
           ends(resp)  == other' = Second("done", other.name, resp)
       IN  CASE other.at = "dedupe" ->
                  \E o \in Outcomes :
                      LET r == getCachedProducts(cache, o)
                      IN  /\ cache' = r.cache
                          /\ calls' = calls \o r.calls
                          /\ faultsLeft' = Spend(r.calls)
                          /\ backend' = backend
                          /\ IF r.threw
                             THEN ends(text("Failed to fetch products", 502))
                             ELSE IF isDuplicate(r.data.json, other.name)
                             THEN ends(jsonError(400, [error   |-> "product_exists",
                                                       product |-> other.name]))
                             ELSE next("location")
             [] other.at = "location" ->
                  \E o \in Outcomes :
                      LET r == cacheGetJson(cache, cacheKeyUrl("locations"),
                                   [kind |-> "GET /api/objects/locations", outcome |-> o,
                                    payload |-> backend.locations], CACHE_DURATION)
                      IN  /\ cache' = r.cache
                          /\ calls' = calls \o r.calls
                          /\ faultsLeft' = Spend(r.calls)
                          /\ backend' = backend
                          /\ IF r.threw
                             THEN ends(Uncaught)
                             ELSE IF r.data = Null
                             THEN ends(text("Failed to fetch locations", 502))
                             ELSE IF findByName(r.data.json, DEFAULT_LOCATION_NAME) = Null
                             THEN ends(jsonError(400, [error    |-> "invalid_location",
                                                       location |-> DEFAULT_LOCATION_NAME]))
                             ELSE next("units")
             [] other.at = "units" ->
                  \E o \in Outcomes :
                      LET r == cacheGetJson(cache, cacheKeyUrl("quantity-units"),
                                   [kind |-> "GET /api/objects/quantity_units", outcome |-> o,
                                    payload |-> backend.quantity_units], CACHE_DURATION)
                          resolved == resolvedUnits(r.data.json,
                                          [role \in DOMAIN DEFAULT_UNITS |-> <<>>])
                      IN  /\ cache' = r.cache
                          /\ calls' = calls \o r.calls
                          /\ faultsLeft' = Spend(r.calls)
                          /\ backend' = backend
                          /\ IF r.threw
                             THEN ends(Uncaught)
                             ELSE IF r.data = Null
                             THEN ends(text("Failed to fetch quantity units", 502))
                             ELSE IF firstMissingUnit(resolved) # ""
                             THEN ends(jsonError(400,
                                          [error |-> "invalid_quantity_unit",
                                           unit  |-> firstMissingUnit(resolved)]))
                             ELSE next("create")
             [] other.at = "create" ->
                  \E o \in Outcomes :
                      LET call == Call("POST /api/objects/products", 0, o)
                          id   == Len(backend.products) + 1
                      IN  /\ calls' = Append(calls, call)
                          /\ faultsLeft' = Spend(<<call>>)
                          /\ cache' = cache
                          /\ CASE o = "throw" -> ends(Uncaught) /\ backend' = backend
                               [] o = "notok" ->
                                    /\ ends(text("Failed to create product", 502))
                                    /\ backend' = backend
                               [] OTHER ->
                                    /\ backend' = [backend EXCEPT !.products =
                                                      Append(@, [id |-> id, name |-> other.name])]
                                    /\ next("invalidate")
             [] other.at = "invalidate" ->
                  /\ cache' = [cache EXCEPT ![cacheKeyUrl("products")] = Null]
                  /\ ends(json([status |-> "created"], 200))
                  /\ UNCHANGED <<calls, faultsLeft, backend>>
             [] OTHER -> FALSE
    /\ UNCHANGED <<now, first, route, pc, body, local, response>>

SecondNames == {<<"a">>, <<"b">>}

InitTwoCreates ==
    /\ route = "products/create"
    /\ pc = "start"
    /\ body \in RaceBodies
    /\ backend \in RaceBackends
    /\ cache \in Caches(backend)
    /\ calls = <<>>
    /\ local = Idle
    /\ response = Null
    /\ faultsLeft \in {0, 1}
    /\ now = 0
    /\ other \in {Second("dedupe", n, Null) : n \in SecondNames}
    /\ first = Null

NextTwoCreates == NextCreate \/ SecondCreate

SpecTwoCreates == InitTwoCreates /\ [][NextTwoCreates]_vars

CreationWrites == {n \in 1..Len(calls) : calls[n].kind = "POST /api/objects/products"}

\* C37: of two product creations in flight whose names are equal after
\* normalization, at most one issues its creation write, whatever the
\* order their steps are taken in.
C37_OneCreationWrite ==
    (route = "products/create" /\ normalize(body.name) = normalize(other.name))
        => Cardinality(CreationWrites) <= 1

\* C38: a product name that is not empty but normalizes to the empty
\* string (punctuation only) resolves to no product, whatever the
\* candidates are.
C38_EmptyQueryUnresolved ==
    (route = "resolveProductFuzzy" /\ pc = "done"
        /\ body.productName # <<>> /\ normalize(body.productName) = <<>>)
        => local.resolved.product = Null

====
